---- MODULE Spec2Model ----
(***************************************************************************)
(* Condition evaluation and response selection of the anansi-proxy mock    *)
(* server: the tree-walking evaluator of pkg/apimock (Evaluate,            *)
(* EvaluateConditions) and the HTTP handler of internal/server that        *)
(* increments the endpoint's call count, builds the request context and    *)
(* selects a response section by its condition block.                      *)
(*                                                                         *)
(* float64 values are modelled by integers (the condition lines used here  *)
(* hold integer literals only); Go's int (the call counter) is a separate  *)
(* kind, as it is a separate dynamic type in the evaluator's type          *)
(* switches.                                                               *)
(***************************************************************************)
EXTENDS Integers, Sequences, FiniteSets, TLC

VARIABLES
    astCache,     \* Server.astCache[ep.FilePath]: the parsed file, or Nil
    schema,       \* ep.Schema: [Responses, Validator]
    callCounts,   \* StateManager.callCounts[ep.Schema.Route]
    pc,           \* per handler goroutine: "idle", "counted", "served"
    request,      \* per handler: the *http.Request being handled
    callCount,    \* per handler: the local callCount
    served,       \* per handler: what was written to the ResponseWriter
    conditions,   \* evaluator harness: the condition block under evaluation
    context,      \* evaluator harness: the ExecutionContext
    outcome,      \* evaluator harness: what EvaluateConditions returned
    source,        \* parser harness: the text of the condition expression
    parser,       \* parser harness: the ExpressionParser (tokens, pos), or Nil
    parsed,       \* parser harness: what Parse returned
    validated,    \* parser harness: what parseConditionLine returned
    fileLines,    \* file harness: the lines of the .apimock file
    fileTokens,   \* file harness: what Lexer.Lex returned
    fileAST       \* file harness: what Parser.Parse returned

vars == <<astCache, schema, callCounts, pc, request, callCount, served,
          conditions, context, outcome, source, parser, parsed, validated,
          fileLines, fileTokens, fileAST>>

serverVars == <<astCache, schema, callCounts, pc, request, callCount, served>>

evaluatorVars == <<conditions, context, outcome>>

parserVars == <<source, parser, parsed, validated>>

fileVars == <<fileLines, fileTokens, fileAST>>

harnessVars == <<evaluatorVars, parserVars, fileVars>>

Nil == [k |-> "nil"]

Pending == [k |-> "pending"]

(***************************************************************************)
(* Bounds of the model.                                                    *)
(***************************************************************************)
MaxLines == 3

MaxResponses == 2

MaxCalls == 5

MaxSeed == 1

(***************************************************************************)
(* Runtime values: the dynamic types held by interface{} in the evaluator. *)
(***************************************************************************)
VFloat(n) == [k |-> "float64", n |-> n]

VInt(i) == [k |-> "int", i |-> i]

VBool(b) == [k |-> "bool", b |-> b]

VString(s) == [k |-> "string", s |-> s]

VArray(a) == [k |-> "[]interface{}", a |-> a]

VDict(d) == [k |-> "map[string]interface{}", d |-> d]

VStringMap(m) == [k |-> "map[string]string", m |-> m]

VRequest(r) == [k |-> "*RequestContext", r |-> r]

(***************************************************************************)
(* Expression nodes of the condition language.                             *)
(***************************************************************************)
NumberValue(n) == [type |-> "NumberValue", Value |-> n]

BooleanValue(b) == [type |-> "BooleanValue", Value |-> b]

StringValue(s) == [type |-> "StringValue", Value |-> s]

TableValue(a) == [type |-> "TableValue", IsArray |-> TRUE, Array |-> a]

TableDict(dict) == [type |-> "TableValue", IsArray |-> FALSE, Dict |-> dict]

PropertyAccess == "PropertyAccess"

IndexAccess == "IndexAccess"

Access(t, key) == [Type |-> t, Key |-> key]

VariableReference(name, path) ==
    [type |-> "VariableReference", Name |-> name, AccessPath |-> path]

BinaryExpression(l, op, r) ==
    [type |-> "BinaryExpression", Left |-> l, Operator |-> op, Right |-> r]

UnaryExpression(op, e) ==
    [type |-> "UnaryExpression", Operator |-> op, Operand |-> e]

Attribution(v, names) ==
    [type |-> "Attribution", Value |-> v, Variables |-> names]

RangeValue(start, end) == [type |-> "RangeValue", Start |-> start, End |-> end]

\* Target is Nil for a global function.
FunctionCall(target, name, args) ==
    [type |-> "FunctionCall", Target |-> target, Name |-> name, Args |-> args]

ConditionLine(e, isOr) == [Expression |-> e, IsOrCondition |-> isOr]

(***************************************************************************)
(* Evaluation errors (the messages of the fmt.Errorf calls, without their  *)
(* operands).                                                              *)
(***************************************************************************)
NoError == ""

ErrUndefinedVariable == "undefined variable"

ErrNilAccess == "cannot access on nil value"

ErrNotBoolean == "condition must evaluate to boolean"

ErrAndOperands == "'and' operator requires boolean operands"

ErrOrOperands == "'or' operator requires boolean operands"

ErrNotOperand == "'not' operator requires boolean operand"

ErrNumericOperands == "operator requires numeric operands"

ErrDestructure == "cannot destructure value"

ErrUnknownOperator == "unknown operator"

ErrUnknownExpression == "unknown expression type"

ErrUnknownFunction == "unknown function"

ErrFunctionTarget == "function requires another target"

ErrFunctionArgCount == "function requires another number of arguments"

ErrFunctionArgType == "function argument of the wrong type"

ErrSubstringBounds == "substring() indices out of bounds"

ErrInvalidRegex == "invalid regex pattern"

ErrRandomRange == "min must be <= max"

ErrRandomChoiceEmpty == "random_choice() requires non-empty array"

(***************************************************************************)
(* ExecutionContext and RequestContext.                                    *)
(***************************************************************************)
EmptyMap == [x \in {} |-> Nil]

MapPut(m, key, v) ==
    [x \in DOMAIN m \cup {key} |-> IF x = key THEN v ELSE m[x]]

RequestContext(method, path, query, headers, body) ==
    [Method |-> method, Path |-> path, Query |-> query,
     Headers |-> headers, Body |-> body]

\* seed is what time.Now().UnixNano() seeds the generator with; rand is the
\* generator's state.
NewExecutionContext(cc, req, seed) ==
    [CallCount |-> cc, Request |-> req, Variables |-> EmptyMap, rand |-> seed]

\* What an Evaluate call hands back: the value, the error, the context's
\* variable map as the call left it (the map is mutated in place), and how
\* many numbers the call drew from the context's generator.
Result(v, err, variables) ==
    [value |-> v, err |-> err, Variables |-> variables, draws |-> 0]

\* The result of a call that made k draws more.
Drew(r, k) == [r EXCEPT !.draws = @ + k]

\* The generator of math/rand, scaled down: a state, its successor, and the
\* number a draw takes from it.
RandModulus == 16

rand_Next(state) == (5 * state + 3) % RandModulus

rand_Out(state) == state \div 4

RECURSIVE rand_Skip(_, _)
rand_Skip(state, k) == IF k = 0 THEN state ELSE rand_Skip(rand_Next(state), k - 1)

\* The context after a call that returned r: the variables it left, the
\* generator past its draws.
Advance(ctx, r) ==
    [ctx EXCEPT !.Variables = r.Variables, !.rand = rand_Skip(@, r.draws)]

Fail(err, variables) == Result(Nil, err, variables)

toFloat64(v) ==
    CASE v.k = "float64" -> [ok |-> TRUE, n |-> v.n]
      [] v.k = "int" -> [ok |-> TRUE, n |-> v.i]
      [] OTHER -> [ok |-> FALSE, n |-> 0]

equals(a, b) ==
    CASE a.k = "float64" -> toFloat64(b).ok /\ a.n = toFloat64(b).n
      [] a.k = "string" -> b.k = "string" /\ a.s = b.s
      [] a.k = "bool" -> b.k = "bool" /\ a.b = b.b
      [] OTHER -> FALSE

\* map lookups of Go: a missing key of a map[string]string is the zero
\* string, a missing key of a map[string]interface{} is nil.
getProperty(obj, key) ==
    CASE obj.k = "map[string]interface{}" ->
            IF key \in DOMAIN obj.d THEN obj.d[key] ELSE Nil
      [] obj.k = "map[string]string" ->
            IF key \in DOMAIN obj.m THEN VString(obj.m[key]) ELSE VString("")
      [] obj.k = "*RequestContext" ->
            CASE key = "method" -> VString(obj.r.Method)
              [] key = "path" -> VString(obj.r.Path)
              [] key = "query" -> VStringMap(obj.r.Query)
              [] key = "headers" -> VStringMap(obj.r.Headers)
              [] key = "body" -> VString(obj.r.Body)
              [] OTHER -> Nil
      [] OTHER -> Nil

\* strconv.Atoi of the index keys that occur in the model.
Atoi(key) ==
    CASE key = "0" -> [ok |-> TRUE, n |-> 0]
      [] key = "1" -> [ok |-> TRUE, n |-> 1]
      [] key = "2" -> [ok |-> TRUE, n |-> 2]
      [] OTHER -> [ok |-> FALSE, n |-> 0]

getIndex(obj, key) ==
    CASE obj.k = "map[string]interface{}" ->
            IF key \in DOMAIN obj.d THEN obj.d[key] ELSE Nil
      [] obj.k = "map[string]string" ->
            IF key \in DOMAIN obj.m THEN VString(obj.m[key]) ELSE VString("")
      [] obj.k = "[]interface{}" ->
            IF Atoi(key).ok /\ Atoi(key).n >= 0 /\ Atoi(key).n < Len(obj.a)
            THEN obj.a[Atoi(key).n + 1]
            ELSE Nil
      [] OTHER -> Nil

(***************************************************************************)
(* The evaluator.  Every operator takes the ExecutionContext and returns   *)
(* a Result whose Variables field is the context's variable map after the  *)
(* call.                                                                   *)
(***************************************************************************)
RECURSIVE applyAccessPath(_, _, _, _)
applyAccessPath(value, path, i, variables) ==
    IF i > Len(path) THEN Result(value, NoError, variables)
    ELSE LET next == IF path[i].Type = PropertyAccess
                     THEN getProperty(value, path[i].Key)
                     ELSE getIndex(value, path[i].Key)
         IN  IF next = Nil THEN Fail(ErrNilAccess, variables)
             ELSE applyAccessPath(next, path, i + 1, variables)

evaluateVariableReference(ref, ctx) ==
    CASE ref.Name = "call_count" ->
            applyAccessPath(VInt(ctx.CallCount), ref.AccessPath, 1, ctx.Variables)
      [] ref.Name = "request" ->
            applyAccessPath(VRequest(ctx.Request), ref.AccessPath, 1, ctx.Variables)
      [] OTHER ->
            IF ref.Name \in DOMAIN ctx.Variables
            THEN applyAccessPath(ctx.Variables[ref.Name], ref.AccessPath, 1,
                                 ctx.Variables)
            ELSE Fail(ErrUndefinedVariable, ctx.Variables)

arithmetic(op, a, b, variables) ==
    LET x == toFloat64(a)
        y == toFloat64(b)
    IN  IF ~x.ok \/ ~y.ok THEN Fail(ErrNumericOperands, variables)
        ELSE CASE op = "+" -> Result(VFloat(x.n + y.n), NoError, variables)
               [] op = "-" -> Result(VFloat(x.n - y.n), NoError, variables)
               [] op = "*" -> Result(VFloat(x.n * y.n), NoError, variables)

\* ordering taking > for >=.
ordering_OrEqual(op, a, b, variables) ==
    LET x == toFloat64(a)
        y == toFloat64(b)
    IN  IF ~x.ok \/ ~y.ok THEN Fail(ErrNumericOperands, variables)
        ELSE CASE op = ">" -> Result(VBool(x.n >= y.n), NoError, variables)
               [] op = "<" -> Result(VBool(x.n < y.n), NoError, variables)
               [] op = ">=" -> Result(VBool(x.n >= y.n), NoError, variables)
               [] op = "<=" -> Result(VBool(x.n <= y.n), NoError, variables)

ordering(op, a, b, variables) ==
    LET x == toFloat64(a)
        y == toFloat64(b)
    IN  IF ~x.ok \/ ~y.ok THEN Fail(ErrNumericOperands, variables)
        ELSE CASE op = ">" -> Result(VBool(x.n > y.n), NoError, variables)
               [] op = "<" -> Result(VBool(x.n < y.n), NoError, variables)
               [] op = ">=" -> Result(VBool(x.n >= y.n), NoError, variables)
               [] op = "<=" -> Result(VBool(x.n <= y.n), NoError, variables)

\* The operator switch of evaluateBinaryExpression, both operands evaluated.
applyBinaryOperator(op, left, right, variables) ==
    CASE op \in {"+", "-", "*"} -> arithmetic(op, left, right, variables)
      [] op = "==" -> Result(VBool(equals(left, right)), NoError, variables)
      [] op = "!=" -> Result(VBool(~equals(left, right)), NoError, variables)
      [] op \in {">", "<", ">=", "<="} -> ordering(op, left, right, variables)
      [] op = "and" ->
            IF left.k # "bool" \/ right.k # "bool"
            THEN Fail(ErrAndOperands, variables)
            ELSE Result(VBool(left.b /\ right.b), NoError, variables)
      [] op = "or" ->
            IF left.k # "bool" \/ right.k # "bool"
            THEN Fail(ErrOrOperands, variables)
            ELSE Result(VBool(left.b \/ right.b), NoError, variables)
      [] OTHER -> Fail(ErrUnknownOperator, variables)

RECURSIVE bindPositional(_, _, _, _)
bindPositional(names, arr, i, variables) ==
    IF i > Len(names) THEN variables
    ELSE bindPositional(names, arr, i + 1,
                        IF i <= Len(arr) THEN MapPut(variables, names[i], arr[i])
                        ELSE variables)

\* bindByKey binding a name without a key to nil.
RECURSIVE bindByKey_BindsMissing(_, _, _, _)
bindByKey_BindsMissing(names, dict, i, variables) ==
    IF i > Len(names) THEN variables
    ELSE bindByKey_BindsMissing(names, dict, i + 1,
                                MapPut(variables, names[i],
                                       IF names[i] \in DOMAIN dict
                                       THEN dict[names[i]] ELSE Nil))

RECURSIVE bindByKey(_, _, _, _)
bindByKey(names, dict, i, variables) ==
    IF i > Len(names) THEN variables
    ELSE bindByKey(names, dict, i + 1,
                   IF names[i] \in DOMAIN dict
                   THEN MapPut(variables, names[i], dict[names[i]])
                   ELSE variables)

\* The binding part of evaluateAttribution, the value evaluated.
bindAttribution(names, value, variables) ==
    IF Len(names) = 1
    THEN Result(value, NoError, MapPut(variables, names[1], value))
    ELSE CASE value.k = "map[string]interface{}" ->
                Result(value, NoError, bindByKey(names, value.d, 1, variables))
           [] value.k = "[]interface{}" ->
                Result(value, NoError, bindPositional(names, value.a, 1, variables))
           [] OTHER -> Fail(ErrDestructure, variables)

(***************************************************************************)
(* The built-in functions.  Strings are sequences of characters; float64   *)
(* values are the integers.                                                *)
(***************************************************************************)
LowerLetters == "abcdefghijklmnopqrstuvwxyz"

UpperLetters == "ABCDEFGHIJKLMNOPQRSTUVWXYZ"

\* The position of character c in the string s, 0 when it is not in it.
IndexIn(c, str) ==
    IF \E i \in 1..Len(str) : SubSeq(str, i, i) = c
    THEN CHOOSE i \in 1..Len(str) : SubSeq(str, i, i) = c
    ELSE 0

RECURSIVE mapChars(_, _, _)
mapChars(str, from, to) ==
    IF str = "" THEN ""
    ELSE LET c == SubSeq(str, 1, 1)
             i == IndexIn(c, from)
         IN  (IF i = 0 THEN c ELSE SubSeq(to, i, i))
             \o mapChars(SubSeq(str, 2, Len(str)), from, to)

strings_ToUpper(str) == mapChars(str, LowerLetters, UpperLetters)

strings_ToLower(str) == mapChars(str, UpperLetters, LowerLetters)

strings_HasPrefix(str, prefix) ==
    Len(str) >= Len(prefix) /\ SubSeq(str, 1, Len(prefix)) = prefix

\* strings.Index: the 0-based position of the first substr in str, or -1.
strings_Index(str, substr) ==
    LET at == {i \in 0..(Len(str) - Len(substr)) :
                  SubSeq(str, i + 1, i + Len(substr)) = substr}
    IN  IF at = {} THEN -1 ELSE CHOOSE i \in at : \A j \in at : i <= j

strings_Contains(str, substr) == strings_Index(str, substr) >= 0

\* strings.Split: an empty separator splits after each character.
RECURSIVE strings_Split(_, _)
strings_Split(str, sep) ==
    IF sep = ""
    THEN [i \in 1..Len(str) |-> SubSeq(str, i, i)]
    ELSE LET i == strings_Index(str, sep)
         IN  IF i < 0 THEN <<str>>
             ELSE <<SubSeq(str, 1, i)>>
                  \o strings_Split(SubSeq(str, i + Len(sep) + 1, Len(str)), sep)

RECURSIVE strings_TrimSpace(_)
strings_TrimSpace(str) ==
    IF str = "" THEN ""
    ELSE IF SubSeq(str, 1, 1) \in {" ", "\t", "\n", "\r"}
         THEN strings_TrimSpace(SubSeq(str, 2, Len(str)))
    ELSE IF SubSeq(str, Len(str), Len(str)) \in {" ", "\t", "\n", "\r"}
         THEN strings_TrimSpace(SubSeq(str, 1, Len(str) - 1))
    ELSE str

\* regexp.MatchString for the patterns of the model: "(" does not compile,
\* a pattern of letters, digits and "@" matches where it occurs.
regexp_MatchString(pattern, str) ==
    IF pattern = "(" THEN [matched |-> FALSE, err |-> ErrInvalidRegex]
    ELSE [matched |-> strings_Contains(str, pattern), err |-> NoError]

\* rand.Intn(n) and rand.Float64() of the context's generator.  Of the
\* interval [0, 1) the model's floats hold 0 only.
rand_Intn(ctx, n) == rand_Out(ctx.rand) % n

rand_Float64(ctx) == 0

fnSplit(target, args, variables) ==
    IF target.k # "string" THEN Fail(ErrFunctionTarget, variables)
    ELSE IF Len(args) # 1 THEN Fail(ErrFunctionArgCount, variables)
    ELSE IF args[1].k # "string" THEN Fail(ErrFunctionArgType, variables)
    ELSE LET parts == strings_Split(target.s, args[1].s)
         IN  Result(VArray([i \in DOMAIN parts |-> VString(parts[i])]), NoError,
                    variables)

fnContains(target, args, variables) ==
    IF target.k # "string" THEN Fail(ErrFunctionTarget, variables)
    ELSE IF Len(args) # 1 THEN Fail(ErrFunctionArgCount, variables)
    ELSE IF args[1].k # "string" THEN Fail(ErrFunctionArgType, variables)
    ELSE Result(VBool(strings_Contains(target.s, args[1].s)), NoError, variables)

fnMatches(target, args, variables) ==
    IF target.k # "string" THEN Fail(ErrFunctionTarget, variables)
    ELSE IF Len(args) # 1 THEN Fail(ErrFunctionArgCount, variables)
    ELSE IF args[1].k # "string" THEN Fail(ErrFunctionArgType, variables)
    ELSE LET m == regexp_MatchString(args[1].s, target.s)
         IN  IF m.err # NoError THEN Fail(m.err, variables)
             ELSE Result(VBool(m.matched), NoError, variables)

fnUpper(target, args, variables) ==
    IF target.k # "string" THEN Fail(ErrFunctionTarget, variables)
    ELSE IF Len(args) # 0 THEN Fail(ErrFunctionArgCount, variables)
    ELSE Result(VString(strings_ToUpper(target.s)), NoError, variables)

fnLower(target, args, variables) ==
    IF target.k # "string" THEN Fail(ErrFunctionTarget, variables)
    ELSE IF Len(args) # 0 THEN Fail(ErrFunctionArgCount, variables)
    ELSE Result(VString(strings_ToLower(target.s)), NoError, variables)

fnTrim(target, args, variables) ==
    IF target.k # "string" THEN Fail(ErrFunctionTarget, variables)
    ELSE IF Len(args) # 0 THEN Fail(ErrFunctionArgCount, variables)
    ELSE Result(VString(strings_TrimSpace(target.s)), NoError, variables)

fnSubstring(target, args, variables) ==
    IF target.k # "string" THEN Fail(ErrFunctionTarget, variables)
    ELSE IF Len(args) # 2 THEN Fail(ErrFunctionArgCount, variables)
    ELSE IF ~toFloat64(args[1]).ok \/ ~toFloat64(args[2]).ok
         THEN Fail(ErrFunctionArgType, variables)
    ELSE LET iStart == toFloat64(args[1]).n
             iEnd == toFloat64(args[2]).n
             n == Len(target.s)
         IN  IF iStart < 0 \/ iStart >= n \/ iEnd < 0 \/ iEnd > n \/ iStart > iEnd
             THEN Fail(ErrSubstringBounds, variables)
             ELSE Result(VString(SubSeq(target.s, iStart + 1, iEnd)), NoError,
                         variables)

fnLen(target, args, variables) ==
    IF Len(args) # 0 THEN Fail(ErrFunctionArgCount, variables)
    ELSE CASE target.k = "string" -> Result(VFloat(Len(target.s)), NoError, variables)
           [] target.k = "[]interface{}" ->
                Result(VFloat(Len(target.a)), NoError, variables)
           [] target.k = "map[string]interface{}" ->
                Result(VFloat(Cardinality(DOMAIN target.d)), NoError, variables)
           [] OTHER -> Fail(ErrFunctionTarget, variables)

fnRandom(ctx, args, variables) ==
    IF Len(args) # 0 THEN Fail(ErrFunctionArgCount, variables)
    ELSE Drew(Result(VFloat(rand_Float64(ctx)), NoError, variables), 1)

fnRandomInt(ctx, args, variables) ==
    IF Len(args) # 2 THEN Fail(ErrFunctionArgCount, variables)
    ELSE IF ~toFloat64(args[1]).ok \/ ~toFloat64(args[2]).ok
         THEN Fail(ErrFunctionArgType, variables)
    ELSE LET iMin == toFloat64(args[1]).n
             iMax == toFloat64(args[2]).n
         IN  IF iMin > iMax THEN Fail(ErrRandomRange, variables)
             ELSE Drew(Result(VFloat(rand_Intn(ctx, iMax - iMin + 1) + iMin),
                              NoError, variables), 1)

fnRandomFloat(ctx, args, variables) ==
    IF Len(args) # 2 THEN Fail(ErrFunctionArgCount, variables)
    ELSE IF ~toFloat64(args[1]).ok \/ ~toFloat64(args[2]).ok
         THEN Fail(ErrFunctionArgType, variables)
    ELSE LET min == toFloat64(args[1]).n
             max == toFloat64(args[2]).n
         IN  IF min > max THEN Fail(ErrRandomRange, variables)
             ELSE Drew(Result(VFloat(min + rand_Float64(ctx) * (max - min)),
                              NoError, variables), 1)

fnRandomChoice(ctx, target, args, variables) ==
    IF target.k # "[]interface{}" THEN Fail(ErrFunctionTarget, variables)
    ELSE IF Len(args) # 0 THEN Fail(ErrFunctionArgCount, variables)
    ELSE IF Len(target.a) = 0 THEN Fail(ErrRandomChoiceEmpty, variables)
    ELSE Drew(Result(target.a[rand_Intn(ctx, Len(target.a)) + 1], NoError,
                     variables), 1)

callBuiltinFunction(name, target, args, ctx) ==
    CASE name = "split" -> fnSplit(target, args, ctx.Variables)
      [] name = "contains" -> fnContains(target, args, ctx.Variables)
      [] name = "matches" -> fnMatches(target, args, ctx.Variables)
      [] name = "upper" -> fnUpper(target, args, ctx.Variables)
      [] name = "lower" -> fnLower(target, args, ctx.Variables)
      [] name = "trim" -> fnTrim(target, args, ctx.Variables)
      [] name = "substring" -> fnSubstring(target, args, ctx.Variables)
      [] name = "len" -> fnLen(target, args, ctx.Variables)
      [] name = "random" -> fnRandom(ctx, args, ctx.Variables)
      [] name = "random_int" -> fnRandomInt(ctx, args, ctx.Variables)
      [] name = "random_float" -> fnRandomFloat(ctx, args, ctx.Variables)
      [] name = "random_choice" -> fnRandomChoice(ctx, target, args, ctx.Variables)
      [] OTHER -> Fail(ErrUnknownFunction, ctx.Variables)

RECURSIVE Evaluate(_, _)
RECURSIVE evaluateElements(_, _, _, _)
RECURSIVE evaluateArgs(_, _, _, _)
RECURSIVE evaluateDictValues(_, _, _, _, _)

evaluateBinaryExpression(expr, ctx) ==
    LET left == Evaluate(expr.Left, ctx)
    IN  IF left.err # NoError THEN Drew(Fail(left.err, left.Variables), left.draws)
        ELSE LET right == Evaluate(expr.Right, Advance(ctx, left))
             IN  Drew(IF right.err # NoError THEN Fail(right.err, right.Variables)
                      ELSE applyBinaryOperator(expr.Operator, left.value,
                                               right.value, right.Variables),
                      left.draws + right.draws)

evaluateUnaryExpression(expr, ctx) ==
    LET operand == Evaluate(expr.Operand, ctx)
    IN  Drew(IF operand.err # NoError THEN Fail(operand.err, operand.Variables)
             ELSE IF expr.Operator # "not"
             THEN Fail(ErrUnknownOperator, operand.Variables)
             ELSE IF operand.value.k # "bool"
             THEN Fail(ErrNotOperand, operand.Variables)
             ELSE Result(VBool(~operand.value.b), NoError, operand.Variables),
             operand.draws)

evaluateAttribution(expr, ctx) ==
    LET value == Evaluate(expr.Value, ctx)
    IN  Drew(IF value.err # NoError THEN Fail(value.err, value.Variables)
             ELSE bindAttribution(expr.Variables, value.value, value.Variables),
             value.draws)

evaluateElements(elems, i, acc, ctx) ==
    IF i > Len(elems) THEN Result(VArray(acc), NoError, ctx.Variables)
    ELSE LET val == Evaluate(elems[i], ctx)
         IN  Drew(IF val.err # NoError THEN Fail(val.err, val.Variables)
                  ELSE evaluateElements(elems, i + 1, Append(acc, val.value),
                                        Advance(ctx, val)),
                  val.draws)

\* The order in which range visits the keys of a map is not fixed by Go: the
\* model takes one order of the keys or its reverse, by the parity of the
\* generator's state.
keyOrder(dict, ctx) ==
    LET n == Cardinality(DOMAIN dict)
        order == CHOOSE o \in [1..n -> DOMAIN dict] :
                    \A i, j \in 1..n : i # j => o[i] # o[j]
    IN  IF ctx.rand % 2 = 0 THEN order ELSE [i \in 1..n |-> order[n + 1 - i]]

\* The dictionary loop of evaluateTableValue.
evaluateDictValues(dict, order, i, acc, ctx) ==
    IF i > Len(order) THEN Result(VDict(acc), NoError, ctx.Variables)
    ELSE LET with(evalVal) ==
                 Drew(IF evalVal.err # NoError
                      THEN Fail(evalVal.err, evalVal.Variables)
                      ELSE evaluateDictValues(dict, order, i + 1,
                                              MapPut(acc, order[i], evalVal.value),
                                              Advance(ctx, evalVal)),
                      evalVal.draws)
         IN  with(Evaluate(dict[order[i]], ctx))

evaluateTableValue(table, ctx) ==
    IF table.IsArray THEN evaluateElements(table.Array, 1, <<>>, ctx)
    ELSE evaluateDictValues(table.Dict, keyOrder(table.Dict, ctx), 1, EmptyMap, ctx)

\* The argument loop of evaluateFunctionCall.
evaluateArgs(args, i, acc, ctx) ==
    IF i > Len(args)
    THEN [values |-> acc, err |-> NoError, Variables |-> ctx.Variables, draws |-> 0]
    ELSE LET arg == Evaluate(args[i], ctx)
         IN  Drew(IF arg.err # NoError
                  THEN [values |-> acc, err |-> arg.err, Variables |-> arg.Variables,
                        draws |-> 0]
                  ELSE evaluateArgs(args, i + 1, Append(acc, arg.value),
                                    Advance(ctx, arg)),
                  arg.draws)

evaluateFunctionCall(fc, ctx) ==
    LET target == IF fc.Target # Nil THEN Evaluate(fc.Target, ctx)
                  ELSE Result(Nil, NoError, ctx.Variables)
    IN  IF target.err # NoError
        THEN Drew(Fail(target.err, target.Variables), target.draws)
        ELSE LET args == evaluateArgs(fc.Args, 1, <<>>, Advance(ctx, target))
             IN  Drew(IF args.err # NoError THEN Fail(args.err, args.Variables)
                      ELSE callBuiltinFunction(fc.Name, target.value, args.values,
                                               Advance(Advance(ctx, target), args)),
                      target.draws + args.draws)

Evaluate(expr, ctx) ==
    CASE expr.type = "BinaryExpression" -> evaluateBinaryExpression(expr, ctx)
      [] expr.type = "UnaryExpression" -> evaluateUnaryExpression(expr, ctx)
      [] expr.type = "Attribution" -> evaluateAttribution(expr, ctx)
      [] expr.type = "NumberValue" ->
            Result(VFloat(expr.Value), NoError, ctx.Variables)
      [] expr.type = "BooleanValue" ->
            Result(VBool(expr.Value), NoError, ctx.Variables)
      [] expr.type = "StringValue" ->
            Result(VString(expr.Value), NoError, ctx.Variables)
      [] expr.type = "TableValue" -> evaluateTableValue(expr, ctx)
      [] expr.type = "RangeValue" ->
            Result([k |-> "RangeValue", Start |-> expr.Start, End |-> expr.End],
                   NoError, ctx.Variables)
      [] expr.type = "VariableReference" -> evaluateVariableReference(expr, ctx)
      [] expr.type = "FunctionCall" -> evaluateFunctionCall(expr, ctx)
      [] OTHER -> Fail(ErrUnknownExpression, ctx.Variables)

(***************************************************************************)
(* The condition validator.                                                *)
(***************************************************************************)
FunctionSignature(name, requiresTarget, minArgs, maxArgs) ==
    [Name |-> name, RequiresTarget |-> requiresTarget,
     MinArgs |-> minArgs, MaxArgs |-> maxArgs]

initializeBuiltinFunctions ==
    {FunctionSignature("split", TRUE, 1, 1),
     FunctionSignature("contains", TRUE, 1, 1),
     FunctionSignature("not_contains", TRUE, 1, 1),
     FunctionSignature("matches", TRUE, 1, 1),
     FunctionSignature("upper", TRUE, 0, 0),
     FunctionSignature("lower", TRUE, 0, 0),
     FunctionSignature("trim", TRUE, 0, 0),
     FunctionSignature("substring", TRUE, 2, 2),
     FunctionSignature("len", TRUE, 0, 0),
     FunctionSignature("is_string", TRUE, 0, 0),
     FunctionSignature("is_number", TRUE, 0, 0),
     FunctionSignature("is_boolean", TRUE, 0, 0),
     FunctionSignature("is_table", TRUE, 0, 0),
     FunctionSignature("round", TRUE, 0, 0),
     FunctionSignature("floor", TRUE, 0, 0),
     FunctionSignature("ceil", TRUE, 0, 0),
     FunctionSignature("abs", TRUE, 0, 0),
     FunctionSignature("random", FALSE, 0, 0),
     FunctionSignature("random_bool", FALSE, 0, 0),
     FunctionSignature("random_int", FALSE, 2, 2),
     FunctionSignature("random_float", FALSE, 2, 2),
     FunctionSignature("random_choice", TRUE, 0, 0)}

knownFunctions ==
    [name \in {f.Name : f \in initializeBuiltinFunctions} |->
        CHOOSE f \in initializeBuiltinFunctions : f.Name = name]

ErrValUnknownFunction == "unknown function: ."

ErrValRequiresTarget == "requires a target"

ErrValNoTarget == "does not take a target"

ErrValTooFewArgs == "requires at least n argument(s)"

ErrValTooManyArgs == "accepts at most n argument(s)"

ErrValNoVariables == "attribution requires at least one variable name"

ErrValVariableName == "invalid variable name"

ErrValEmptyReference == "variable reference cannot be empty"

ErrValUnknownBinary == "unknown binary operator"

ErrValUnknownUnary == "unknown unary operator"

ErrValUnknownExpression == "unknown expression type"

Digits == "0123456789"

isLetter(c) == IndexIn(c, LowerLetters) > 0 \/ IndexIn(c, UpperLetters) > 0

isDigit(c) == IndexIn(c, Digits) > 0

isValidVariableName(name) ==
    /\ name # ""
    /\ name \notin {"and", "or", "not", "True", "False"}
    /\ isLetter(SubSeq(name, 1, 1)) \/ SubSeq(name, 1, 1) = "_"
    /\ \A i \in 2..Len(name) :
          LET ch == SubSeq(name, i, i)
          IN  isLetter(ch) \/ isDigit(ch) \/ ch = "_"

RECURSIVE validateExpression(_)

\* The error of the first expression of the sequence that has one.
RECURSIVE validateEach(_, _)
validateEach(exprs, i) ==
    IF i > Len(exprs) THEN NoError
    ELSE IF validateExpression(exprs[i]) # NoError THEN validateExpression(exprs[i])
    ELSE validateEach(exprs, i + 1)

validateBinaryExpression(expr) ==
    IF validateExpression(expr.Left) # NoError THEN validateExpression(expr.Left)
    ELSE IF validateExpression(expr.Right) # NoError
         THEN validateExpression(expr.Right)
    ELSE IF expr.Operator \notin {"+", "-", "*", "/", "%", "//", "==", "!=", ">",
                                  "<", ">=", "<=", "..", "and", "or"}
         THEN ErrValUnknownBinary
    ELSE NoError

validateUnaryExpression(expr) ==
    IF validateExpression(expr.Operand) # NoError
    THEN validateExpression(expr.Operand)
    ELSE IF expr.Operator # "not" THEN ErrValUnknownUnary
    ELSE NoError

validateAttribution(expr) ==
    IF validateExpression(expr.Value) # NoError THEN validateExpression(expr.Value)
    ELSE IF Len(expr.Variables) = 0 THEN ErrValNoVariables
    ELSE IF \E i \in DOMAIN expr.Variables : ~isValidVariableName(expr.Variables[i])
         THEN ErrValVariableName
    ELSE NoError

validateFunctionCall(expr) ==
    IF expr.Name \notin DOMAIN knownFunctions THEN ErrValUnknownFunction
    ELSE LET signature == knownFunctions[expr.Name]
             argCount == Len(expr.Args)
         IN  IF signature.RequiresTarget /\ expr.Target = Nil
             THEN ErrValRequiresTarget
             ELSE IF signature.RequiresTarget
                     /\ validateExpression(expr.Target) # NoError
             THEN validateExpression(expr.Target)
             ELSE IF ~signature.RequiresTarget /\ expr.Target # Nil
             THEN ErrValNoTarget
             ELSE IF argCount < signature.MinArgs THEN ErrValTooFewArgs
             ELSE IF signature.MaxArgs >= 0 /\ argCount > signature.MaxArgs
             THEN ErrValTooManyArgs
             ELSE validateEach(expr.Args, 1)

validateVariableReference(expr) ==
    IF expr.Name = "" THEN ErrValEmptyReference ELSE NoError

validateExpression(expr) ==
    CASE expr.type = "BinaryExpression" -> validateBinaryExpression(expr)
      [] expr.type = "UnaryExpression" -> validateUnaryExpression(expr)
      [] expr.type = "Attribution" -> validateAttribution(expr)
      [] expr.type = "FunctionCall" -> validateFunctionCall(expr)
      [] expr.type = "VariableReference" -> validateVariableReference(expr)
      [] expr.type \in {"NumberValue", "BooleanValue", "StringValue",
                        "TableValue", "RangeValue"} -> NoError
      [] OTHER -> ErrValUnknownExpression

ValidateConditionLine(condition) == validateExpression(condition.Expression)

ValidateConditions(conds) == validateEach([i \in DOMAIN conds |-> conds[i].Expression], 1)

(***************************************************************************)
(* The expression parser: tokens are strings, pos counts the tokens        *)
(* consumed.  Every parse function hands back the expression, the error    *)
(* and the parser's position as the call left it.                          *)
(***************************************************************************)
Parsed(expr, pos) == [expr |-> expr, err |-> NoError, token |-> "", pos |-> pos]

\* The error names the token it met.
Failed(msg, token, pos) == [expr |-> Nil, err |-> msg, token |-> token, pos |-> pos]

ErrExpectedVariable == "expected variable name after >>"

ErrExpectedParen == "expected ')'"

ErrExpectedBracket == "expected ']'"

ErrExpectedBrace == "expected '}'"

ErrExpectedKey == "expected string or number in bracket notation"

ErrUnexpectedToken == "unexpected token"

ErrTableValue == "table value must be a Value type"

ErrTableElement == "table element must be a Value type"

\* input[i], i counted from 0; "" beyond the end.
byteAt(input, i) == SubSeq(input, i + 1, i + 1)

\* input[i:j]
slice(input, i, j) == SubSeq(input, i + 1, j)

isIdentStart(c) == isLetter(c) \/ c = "_"

isIdentPart(c) == isLetter(c) \/ isDigit(c) \/ c = "_"

\* The end of the run of digits and dots that starts at end.
RECURSIVE numberEnd(_, _)
numberEnd(input, end) ==
    IF end < Len(input) /\ (isDigit(byteAt(input, end)) \/ byteAt(input, end) = ".")
    THEN numberEnd(input, end + 1)
    ELSE end

\* The end of the run of letters, digits and underscores that starts at end.
RECURSIVE identEnd(_, _)
identEnd(input, end) ==
    IF end < Len(input) /\ isIdentPart(byteAt(input, end))
    THEN identEnd(input, end + 1)
    ELSE end

\* The position of the next double quote at or after end, Len(input) if none.
RECURSIVE quoteEnd(_, _)
quoteEnd(input, end) ==
    IF end < Len(input) /\ byteAt(input, end) # "\""
    THEN quoteEnd(input, end + 1)
    ELSE end

TwoCharOperators == {">>", "==", "!=", ">=", "<=", "..", "//"}

SingleCharOperators ==
    {"+", "-", "*", "/", "%", "(", ")", ",", "[", "]", "{", "}", ".", "<", ">", "="}

RECURSIVE tokenizeFrom(_, _, _)
tokenizeFrom(input, i, tokens) ==
    IF i >= Len(input) THEN tokens
    ELSE LET c == byteAt(input, i)
         IN  IF c = " " \/ c = "\t" THEN tokenizeFrom(input, i + 1, tokens)
             ELSE IF i + 1 < Len(input) /\ slice(input, i, i + 2) \in TwoCharOperators
             THEN tokenizeFrom(input, i + 2, Append(tokens, slice(input, i, i + 2)))
             ELSE IF c = "\"" /\ quoteEnd(input, i + 1) < Len(input)
             THEN LET end == quoteEnd(input, i + 1)
                  IN  tokenizeFrom(input, end + 1,
                                   Append(tokens, slice(input, i, end + 1)))
             ELSE IF isDigit(c)
             THEN LET end == numberEnd(input, i)
                  IN  tokenizeFrom(input, end, Append(tokens, slice(input, i, end)))
             ELSE IF c = "." /\ i + 1 < Len(input) /\ isIdentStart(byteAt(input, i + 1))
             THEN LET end == identEnd(input, i + 1)
                  IN  tokenizeFrom(input, end, Append(tokens, slice(input, i, end)))
             ELSE IF isIdentStart(c)
             THEN LET end == identEnd(input, i)
                  IN  tokenizeFrom(input, end, Append(tokens, slice(input, i, end)))
             ELSE IF c \in SingleCharOperators
             THEN tokenizeFrom(input, i + 1, Append(tokens, c))
             ELSE tokenizeFrom(input, i + 1, tokens)

tokenizeExpression(input) == tokenizeFrom(input, 0, <<>>)

NewExpressionParser(text) ==
    [input |-> text, pos |-> 0, tokens |-> tokenizeExpression(text)]

\* The value of a run of decimal digits.
RECURSIVE digitsValue(_)
digitsValue(str) ==
    IF str = "" THEN 0
    ELSE 10 * digitsValue(SubSeq(str, 1, Len(str) - 1))
         + (IndexIn(SubSeq(str, Len(str), Len(str)), Digits) - 1)

allDigits(str) == \A i \in 1..Len(str) : isDigit(SubSeq(str, i, i))

\* strconv.ParseFloat on a token: digits with at most one dot and a digit on
\* one side of it, or a name of infinity or of not-a-number.  A fraction
\* that is not zero is kept beside the whole part.
strconv_ParseFloat(str) ==
    LET dot == strings_Index(str, ".")
        whole == IF dot < 0 THEN str ELSE slice(str, 0, dot)
        frac == IF dot < 0 THEN "" ELSE slice(str, dot + 1, Len(str))
    IN  IF strings_ToLower(str) \in {"inf", "infinity"}
        THEN [ok |-> TRUE, n |-> "+Inf"]
        ELSE IF strings_ToLower(str) = "nan" THEN [ok |-> TRUE, n |-> "NaN"]
        ELSE IF allDigits(whole) /\ allDigits(frac) /\ Len(whole) + Len(frac) > 0
        THEN [ok |-> TRUE,
              n |-> IF digitsValue(frac) = 0 THEN digitsValue(whole)
                    ELSE <<digitsValue(whole), frac>>]
        ELSE [ok |-> FALSE, n |-> 0]

isNumber(str) == strconv_ParseFloat(str).ok

isString(str) ==
    Len(str) >= 2 /\ byteAt(str, 0) = "\"" /\ byteAt(str, Len(str) - 1) = "\""

isIdentifier(str) ==
    /\ str \notin {"", "and", "or", "not", "True", "False"}
    /\ isIdentStart(byteAt(str, 0))
    /\ \A i \in 1..(Len(str) - 1) : isIdentPart(byteAt(str, i))

isComparisonOp(str) == str \in {"==", "!=", ">", "<", ">=", "<="}

isOperator(str) ==
    str \in {"+", "-", "*", "/", "%", "//", "==", "!=", ">", "<", ">=", "<=",
             "..", "and", "or", "not", ">>"}

\* Whether the expression type implements the Value interface.
isValue(expr) ==
    expr.type \in {"NumberValue", "BooleanValue", "StringValue", "TableValue",
                   "RangeValue", "VariableReference", "FunctionCall"}

peek(tokens, pos) == IF pos >= Len(tokens) THEN "" ELSE tokens[pos + 1]

consume(tokens, pos) == IF pos < Len(tokens) THEN pos + 1 ELSE pos

isEnd(tokens, pos) == pos >= Len(tokens)

isRange(tokens, pos) ==
    /\ pos + 2 < Len(tokens)
    /\ isNumber(tokens[pos + 1])
    /\ tokens[pos + 2] = ".."
    /\ isNumber(tokens[pos + 3])

\* A parse function's result is named by passing it to an operator, as the
\* code names it with a local variable.
RECURSIVE parseLogicalOr(_, _)
RECURSIVE orLoop(_, _, _)
RECURSIVE parseLogicalAnd(_, _)
RECURSIVE andLoop(_, _, _)
RECURSIVE parseAttribution(_, _)
RECURSIVE variableList(_, _, _, _)
RECURSIVE parseComparison(_, _)
RECURSIVE comparisonOperand(_, _, _, _)
RECURSIVE parseStringConcat(_, _)
RECURSIVE concatLoop(_, _, _)
RECURSIVE parseAddSub(_, _)
RECURSIVE addSubLoop(_, _, _, _)
RECURSIVE parseMulDiv(_, _)
RECURSIVE mulDivLoop(_, _, _, _)
RECURSIVE parseUnary(_, _)
RECURSIVE parsePrimary(_, _)
RECURSIVE parseFunctionCall(_, _, _)
RECURSIVE parseArguments(_, _, _)
RECURSIVE parseVariableOrFunction(_, _)
RECURSIVE accessPath(_, _, _)
RECURSIVE parseGlobalFunction(_, _)
RECURSIVE parseTable(_, _)
RECURSIVE tableLoop(_, _, _, _, _)
RECURSIVE parseRange(_, _)

parseLogicalOr(tokens, pos) == orLoop(tokens, pos, Nil)

\* The loop of parseLogicalOr: left is Nil before the first operand.
orLoop(tokens, pos, left) ==
    LET with(right) ==
            LET expr == IF left = Nil THEN right.expr
                        ELSE BinaryExpression(left, "or", right.expr)
            IN  IF right.err # NoError THEN right
                ELSE IF peek(tokens, right.pos) = "or"
                THEN orLoop(tokens, consume(tokens, right.pos), expr)
                ELSE Parsed(expr, right.pos)
    IN  with(parseLogicalAnd(tokens, pos))

parseLogicalAnd(tokens, pos) == andLoop(tokens, pos, Nil)

andLoop(tokens, pos, left) ==
    LET with(right) ==
            LET expr == IF left = Nil THEN right.expr
                        ELSE BinaryExpression(left, "and", right.expr)
            IN  IF right.err # NoError THEN right
                ELSE IF peek(tokens, right.pos) = "and"
                THEN andLoop(tokens, consume(tokens, right.pos), expr)
                ELSE Parsed(expr, right.pos)
    IN  with(parseAttribution(tokens, pos))

parseAttribution(tokens, pos) ==
    LET with(left) ==
            IF left.err # NoError THEN left
            ELSE IF peek(tokens, left.pos) = ">>"
            THEN variableList(tokens, consume(tokens, left.pos), left.expr, <<>>)
            ELSE left
    IN  with(parseComparison(tokens, pos))

\* The variable list after >>.
variableList(tokens, pos, value, variables) ==
    LET varName == peek(tokens, pos)
    IN  IF ~isIdentifier(varName) THEN Failed(ErrExpectedVariable, varName, pos)
        ELSE IF peek(tokens, consume(tokens, pos)) = ","
        THEN variableList(tokens, consume(tokens, consume(tokens, pos)), value,
                          Append(variables, varName))
        ELSE Parsed(Attribution(value, Append(variables, varName)),
                    consume(tokens, pos))

parseComparison(tokens, pos) == comparisonOperand(tokens, pos, Nil, "")

\* One operand of parseComparison: the left one when left is Nil, after
\* which at most one comparison operator and its right operand follow.
comparisonOperand(tokens, pos, left, op) ==
    LET with(operand) ==
            IF operand.err # NoError THEN operand
            ELSE IF left # Nil
            THEN Parsed(BinaryExpression(left, op, operand.expr), operand.pos)
            ELSE IF isComparisonOp(peek(tokens, operand.pos))
            THEN comparisonOperand(tokens, consume(tokens, operand.pos),
                                   operand.expr, peek(tokens, operand.pos))
            ELSE operand
    IN  with(parseStringConcat(tokens, pos))

parseStringConcat(tokens, pos) == concatLoop(tokens, pos, Nil)

concatLoop(tokens, pos, left) ==
    LET with(right) ==
            LET expr == IF left = Nil THEN right.expr
                        ELSE BinaryExpression(left, "..", right.expr)
            IN  IF right.err # NoError THEN right
                ELSE IF peek(tokens, right.pos) = ".."
                THEN concatLoop(tokens, consume(tokens, right.pos), expr)
                ELSE Parsed(expr, right.pos)
    IN  with(parseAddSub(tokens, pos))

parseAddSub(tokens, pos) == addSubLoop(tokens, pos, Nil, "")

addSubLoop(tokens, pos, left, op) ==
    LET with(right) ==
            LET expr == IF left = Nil THEN right.expr
                        ELSE BinaryExpression(left, op, right.expr)
            IN  IF right.err # NoError THEN right
                ELSE IF peek(tokens, right.pos) \in {"+", "-"}
                THEN addSubLoop(tokens, consume(tokens, right.pos), expr,
                                peek(tokens, right.pos))
                ELSE Parsed(expr, right.pos)
    IN  with(parseMulDiv(tokens, pos))

parseMulDiv(tokens, pos) == mulDivLoop(tokens, pos, Nil, "")

\* mulDivLoop taking + at its own level.
RECURSIVE mulDivLoop_AlsoPlus(_, _, _, _)
mulDivLoop_AlsoPlus(tokens, pos, left, op) ==
    LET with(right) ==
            LET expr == IF left = Nil THEN right.expr
                        ELSE BinaryExpression(left, op, right.expr)
            IN  IF right.err # NoError THEN right
                ELSE IF peek(tokens, right.pos) \in {"*", "/", "%", "//", "+"}
                THEN mulDivLoop_AlsoPlus(tokens, consume(tokens, right.pos), expr,
                                peek(tokens, right.pos))
                ELSE Parsed(expr, right.pos)
    IN  with(parseUnary(tokens, pos))

mulDivLoop(tokens, pos, left, op) ==
    LET with(right) ==
            LET expr == IF left = Nil THEN right.expr
                        ELSE BinaryExpression(left, op, right.expr)
            IN  IF right.err # NoError THEN right
                ELSE IF peek(tokens, right.pos) \in {"*", "/", "%", "//"}
                THEN mulDivLoop(tokens, consume(tokens, right.pos), expr,
                                peek(tokens, right.pos))
                ELSE Parsed(expr, right.pos)
    IN  with(parseUnary(tokens, pos))

parseUnary(tokens, pos) ==
    IF peek(tokens, pos) = "not"
    THEN LET with(operand) ==
                 IF operand.err # NoError THEN operand
                 ELSE Parsed(UnaryExpression("not", operand.expr), operand.pos)
         IN  with(parseUnary(tokens, consume(tokens, pos)))
    ELSE parsePrimary(tokens, pos)

\* Whether the token is a number, boolean or string literal.
isLiteral(token) ==
    isNumber(token) \/ token = "True" \/ token = "False" \/ isString(token)

\* The value expression of a literal token.
literalValue(token) ==
    IF isNumber(token) THEN NumberValue(strconv_ParseFloat(token).n)
    ELSE IF token = "True" THEN BooleanValue(TRUE)
    ELSE IF token = "False" THEN BooleanValue(FALSE)
    ELSE StringValue(slice(token, 1, Len(token) - 1))

parsePrimary(tokens, pos) ==
    LET token == peek(tokens, pos)
    IN  IF token = "("
        THEN LET with(expr) ==
                     IF expr.err # NoError THEN expr
                     ELSE IF peek(tokens, expr.pos) # ")"
                     THEN Failed(ErrExpectedParen, peek(tokens, expr.pos), expr.pos)
                     ELSE Parsed(expr.expr, consume(tokens, expr.pos))
             IN  with(parseLogicalOr(tokens, consume(tokens, pos)))
        ELSE IF isLiteral(token) \/ (token # "{" /\ ~isRange(tokens, pos)
                                     /\ ~strings_HasPrefix(token, ".")
                                     /\ isIdentifier(token))
        THEN LET with(value) ==
                     IF value.err # NoError THEN value
                     ELSE parseFunctionCall(tokens, value.pos, value.expr)
             IN  with(IF isLiteral(token)
                      THEN Parsed(literalValue(token), consume(tokens, pos))
                      ELSE parseVariableOrFunction(tokens, pos))
        ELSE IF token = "{" THEN parseTable(tokens, pos)
        ELSE IF isRange(tokens, pos) THEN parseRange(tokens, pos)
        ELSE IF strings_HasPrefix(token, ".") THEN parseGlobalFunction(tokens, pos)
        ELSE Failed(ErrUnexpectedToken, token, pos)

parseFunctionCall(tokens, pos, target) ==
    IF peek(tokens, pos) = "." /\ pos + 1 < Len(tokens)
       /\ tokens[pos + 2] # "." /\ ~strings_HasPrefix(tokens[pos + 2], ".")
       /\ isIdentifier(tokens[pos + 2])
    THEN LET funcName == peek(tokens, consume(tokens, pos))
             with(args) == parseFunctionCall(tokens, args.pos,
                                             FunctionCall(target, funcName, args.args))
         IN  with(parseArguments(tokens, consume(tokens, consume(tokens, pos)), <<>>))
    ELSE Parsed(target, pos)

\* The argument loop of parseFunctionCall and parseGlobalFunction: an
\* argument that fails to parse ends the list, its tokens consumed.
parseArguments(tokens, pos, args) ==
    IF ~isEnd(tokens, pos) /\ ~isOperator(peek(tokens, pos))
       /\ peek(tokens, pos) \notin {",", ">>", ")", "]"}
    THEN LET with(arg) ==
                 IF arg.err # NoError THEN [args |-> args, pos |-> arg.pos]
                 ELSE parseArguments(tokens, arg.pos, Append(args, arg.expr))
         IN  with(parsePrimary(tokens, pos))
    ELSE [args |-> args, pos |-> pos]

\* parseVariableOrFunction up to its last line, the call of
\* parseFunctionCall on the reference, which parsePrimary makes.
parseVariableOrFunction(tokens, pos) ==
    accessPath(tokens, consume(tokens, pos),
               VariableReference(peek(tokens, pos), <<>>))

\* The property and index access loop of parseVariableOrFunction.
accessPath(tokens, pos, varRef) ==
    LET next == peek(tokens, pos)
        isProperty == /\ next = "." /\ pos + 1 < Len(tokens)
                      /\ tokens[pos + 2] # "." /\ isIdentifier(tokens[pos + 2])
        key == peek(tokens, consume(tokens, pos))
        after == consume(tokens, consume(tokens, pos))
    IN  IF ~isProperty /\ next # "[" THEN Parsed(varRef, pos)
        ELSE IF next = "[" /\ ~isString(key) /\ ~isNumber(key)
        THEN Failed(ErrExpectedKey, key, consume(tokens, pos))
        ELSE IF next = "[" /\ peek(tokens, after) # "]"
        THEN Failed(ErrExpectedBracket, peek(tokens, after), after)
        ELSE accessPath(tokens,
                        IF isProperty THEN after ELSE consume(tokens, after),
                        [varRef EXCEPT !.AccessPath =
                            Append(@, IF isProperty
                                      THEN Access(PropertyAccess, key)
                                      ELSE Access(IndexAccess,
                                                  IF isString(key)
                                                  THEN slice(key, 1, Len(key) - 1)
                                                  ELSE key))])

parseGlobalFunction(tokens, pos) ==
    LET token == peek(tokens, pos)
        with(args) == Parsed(FunctionCall(Nil, slice(token, 1, Len(token)), args.args),
                             args.pos)
    IN  with(parseArguments(tokens, consume(tokens, pos), <<>>))

parseTable(tokens, pos) == tableLoop(tokens, consume(tokens, pos), <<>>, EmptyMap, FALSE)

\* The element loop of parseTable and what follows it.
tableLoop(tokens, pos, elements, dictPairs, isDict) ==
    IF peek(tokens, pos) # "}" /\ ~isEnd(tokens, pos)
    THEN LET isPair == /\ isIdentifier(peek(tokens, pos)) /\ pos + 1 < Len(tokens)
                       /\ tokens[pos + 2] = "="
             with(val) ==
                 IF val.err # NoError THEN val
                 ELSE IF ~isValue(val.expr)
                 THEN Failed(IF isPair THEN ErrTableValue ELSE ErrTableElement, "",
                             val.pos)
                 ELSE tableLoop(tokens,
                                IF peek(tokens, val.pos) = ","
                                THEN consume(tokens, val.pos) ELSE val.pos,
                                IF isPair THEN elements
                                ELSE Append(elements, val.expr),
                                IF isPair
                                THEN MapPut(dictPairs, peek(tokens, pos), val.expr)
                                ELSE dictPairs,
                                isPair \/ isDict)
         IN  with(parseLogicalOr(tokens, IF isPair
                                         THEN consume(tokens, consume(tokens, pos))
                                         ELSE pos))
    ELSE IF peek(tokens, pos) # "}"
         THEN Failed(ErrExpectedBrace, peek(tokens, pos), pos)
    ELSE IF isDict THEN Parsed(TableDict(dictPairs), consume(tokens, pos))
    ELSE Parsed(TableValue(elements), consume(tokens, pos))

parseRange(tokens, pos) ==
    Parsed(RangeValue(strconv_ParseFloat(peek(tokens, pos)).n,
                      strconv_ParseFloat(peek(tokens, pos + 2)).n),
           consume(tokens, consume(tokens, consume(tokens, pos))))

\* Parse of the parser p: the expression or the error, and p.pos after it.
Parse(p) ==
    IF Len(p.tokens) = 0 THEN Parsed(BooleanValue(FALSE), p.pos)
    ELSE parseLogicalOr(p.tokens, p.pos)

ErrInvalidCondition == "invalid condition expression"

\* parseConditionLine given what Parse returned: the condition line, or the
\* error that fails the load of the mock file.
parseConditionLine(result) ==
    IF result.err # NoError
    THEN [line |-> Nil, err |-> ErrInvalidCondition, cause |-> result.err]
    ELSE LET conditionLine == ConditionLine(result.expr, FALSE)
         IN  IF ValidateConditionLine(conditionLine) # NoError
             THEN [line |-> Nil, err |-> "condition validation error",
                   cause |-> ValidateConditionLine(conditionLine)]
             ELSE [line |-> conditionLine, err |-> NoError, cause |-> NoError]

(***************************************************************************)
(* The lexer of .apimock files: one token per line, by the first pattern   *)
(* the line matches.                                                       *)
(***************************************************************************)
\* What FindStringSubmatch returns when the pattern does not match.
NoMatch == <<>>

Token(type, lineNo, raw) ==
    [Type |-> type, Line |-> lineNo, Raw |-> raw, Method |-> "", Path |-> "",
     PathSegments |-> <<>>, PathContinuation |-> "", Key |-> "", Value |-> "",
     StatusCode |-> 0, Description |-> "", ConditionExpression |-> "",
     IsOrCondition |-> FALSE]

\* \s of the patterns.
isSpace(c) == c \in {" ", "\t", "\n", "\r"}

\* [a-zA-Z0-9_.\-]
isNameChar(c) == isLetter(c) \/ isDigit(c) \/ c \in {"_", ".", "-"}

\* [a-zA-Z0-9_.\-{}]
isPathChar(c) == isNameChar(c) \/ c \in {"{", "}"}

\* The end of the run of white space that starts at i.
RECURSIVE spaceEnd(_, _)
spaceEnd(str, i) ==
    IF i < Len(str) /\ isSpace(byteAt(str, i)) THEN spaceEnd(str, i + 1) ELSE i

\* The end of the run of other characters that starts at i.
RECURSIVE nonSpaceEnd(_, _)
nonSpaceEnd(str, i) ==
    IF i < Len(str) /\ ~isSpace(byteAt(str, i)) THEN nonSpaceEnd(str, i + 1) ELSE i

RECURSIVE nameEnd(_, _)
nameEnd(str, i) ==
    IF i < Len(str) /\ isNameChar(byteAt(str, i)) THEN nameEnd(str, i + 1) ELSE i

RECURSIVE pathCharEnd(_, _)
pathCharEnd(str, i) ==
    IF i < Len(str) /\ isPathChar(byteAt(str, i)) THEN pathCharEnd(str, i + 1)
    ELSE i

\* ^--\s*(\d{3}):\s*(.*) : the two groups, or NoMatch.
responseLineCaptureRegex(line) ==
    LET d == spaceEnd(line, 2)
    IN  IF /\ strings_HasPrefix(line, "--")
           /\ d + 3 < Len(line)
           /\ allDigits(slice(line, d, d + 3))
           /\ byteAt(line, d + 3) = ":"
        THEN <<slice(line, d, d + 3), slice(line, spaceEnd(line, d + 4), Len(line))>>
        ELSE NoMatch

\* ^>\s*(.*) : the group, or NoMatch.
conditionLineRegex(line) ==
    IF strings_HasPrefix(line, ">")
    THEN <<slice(line, spaceEnd(line, 1), Len(line))>>
    ELSE NoMatch

\* ^or\s+(.+) on a trimmed expression: the group, or NoMatch.
conditionOrRegex(expression) ==
    IF /\ strings_HasPrefix(expression, "or")
       /\ spaceEnd(expression, 2) > 2
       /\ spaceEnd(expression, 2) < Len(expression)
    THEN <<slice(expression, spaceEnd(expression, 2), Len(expression))>>
    ELSE NoMatch

\* ^([a-zA-Z][a-zA-Z0-9_.\-]*):\s*(.+) : the key and the rest after the
\* colon, or NoMatch.
propertyCaptureRegex(line) ==
    LET end == nameEnd(line, 1)
    IN  IF /\ Len(line) > 0
           /\ isLetter(byteAt(line, 0))
           /\ end + 1 < Len(line)
           /\ byteAt(line, end) = ":"
        THEN <<slice(line, 0, end), slice(line, end + 1, Len(line))>>
        ELSE NoMatch

\* ^\s+(/[a-zA-Z0-9_.\-{}]+|\?[a-zA-Z0-9_.\-]+=\S+|&[a-zA-Z0-9_.\-]+=\S+) :
\* the group, or NoMatch.
pathContRegex(line) ==
    LET s == spaceEnd(line, 0)
        c == byteAt(line, s)
        key == nameEnd(line, s + 1)
    IN  IF s = 0 \/ s >= Len(line) THEN NoMatch
        ELSE IF c = "/" /\ pathCharEnd(line, s + 1) > s + 1
        THEN <<slice(line, s, pathCharEnd(line, s + 1))>>
        ELSE IF /\ c \in {"?", "&"}
                /\ key > s + 1
                /\ byteAt(line, key) = "="
                /\ nonSpaceEnd(line, key + 1) > key + 1
        THEN <<slice(line, s, nonSpaceEnd(line, key + 1))>>
        ELSE NoMatch

\* ([a-zA-Z0-9_.\-]+)=(\S+) found in the text of a query parameter that
\* pathContRegex matched: the one pair of key and value.
queryParamRegex(cont) ==
    <<slice(cont, 0, nameEnd(cont, 0)), slice(cont, nameEnd(cont, 0) + 1, Len(cont))>>

validHTTPMethods ==
    {"GET", "POST", "PUT", "DELETE", "PATCH", "HEAD", "OPTIONS", "TRACE", "CONNECT"}

\* ^(GET|POST|...)\s : the method, or NoMatch.
httpMethodRegex(line) ==
    IF \E m \in validHTTPMethods :
           strings_HasPrefix(line, m) /\ isSpace(byteAt(line, Len(m)))
    THEN <<CHOOSE m \in validHTTPMethods :
               strings_HasPrefix(line, m) /\ isSpace(byteAt(line, Len(m)))>>
    ELSE NoMatch

\* The end of the match of (/[a-zA-Z0-9_.\-{}]+)+ that starts at i.
RECURSIVE pathEnd(_, _)
pathEnd(str, i) ==
    IF i < Len(str) /\ byteAt(str, i) = "/" /\ pathCharEnd(str, i + 1) > i + 1
    THEN pathEnd(str, pathCharEnd(str, i + 1))
    ELSE i

\* pathStartRegex.FindString
pathStartRegex(str) == slice(str, 0, pathEnd(str, 0))

\* parsePathSegments on a path of plain and {name} segments.
RECURSIVE parsePathSegments(_)
parsePathSegments(path) ==
    IF pathEnd(path, 0) = 0 THEN <<>>
    ELSE LET end == nameEnd(path, 1)
             braced == byteAt(path, 1) = "{"
             close == nameEnd(path, 2) + 1
         IN  IF braced
             THEN <<[Value |-> slice(path, 1, close), IsParameter |-> TRUE,
                     Name |-> slice(path, 2, close - 1)]>>
                  \o parsePathSegments(slice(path, close, Len(path)))
             ELSE <<[Value |-> slice(path, 1, end), IsParameter |-> FALSE,
                     Name |-> ""]>>
                  \o parsePathSegments(slice(path, end, Len(path)))

\* The expression of a condition line: trimmed, cut at the first #, and
\* without a leading or.
conditionToken(line, lineNo) ==
    LET whole == strings_TrimSpace(conditionLineRegex(line)[1])
        commentIdx == strings_Index(whole, "#")
        expression == IF commentIdx # -1
                      THEN strings_TrimSpace(slice(whole, 0, commentIdx))
                      ELSE whole
        orMatch == conditionOrRegex(expression)
    IN  [Token("ConditionLine", lineNo, line) EXCEPT
            !.ConditionExpression = IF orMatch # NoMatch
                                    THEN strings_TrimSpace(orMatch[1])
                                    ELSE expression,
            !.IsOrCondition = orMatch # NoMatch]

\* The request line or body line that a line matching nothing else gives.
requestToken(line, lineNo) ==
    LET m == httpMethodRegex(line)
        rest == IF m = NoMatch THEN line
                ELSE strings_TrimSpace(slice(line, Len(m[1]) + 1, Len(line)))
        path == IF pathStartRegex(rest) # "" THEN pathStartRegex(rest)
                ELSE pathStartRegex(line)
    IN  IF path # ""
        THEN [Token("RequestLine", lineNo, line) EXCEPT
                 !.Method = IF m = NoMatch THEN "" ELSE m[1],
                 !.Path = path,
                 !.PathSegments = parsePathSegments(path)]
        ELSE Token("BodyLine", lineNo, line)

\* The tokens of one line of the loop of Lex.
lexLine(line, lineNo) ==
    IF strings_TrimSpace(line) = "" THEN <<Token("BlankLine", lineNo, line)>>
    ELSE IF responseLineCaptureRegex(line) # NoMatch
    THEN <<[Token("ResponseStart", lineNo, line) EXCEPT
               !.StatusCode = digitsValue(responseLineCaptureRegex(line)[1]),
               !.Description = strings_TrimSpace(responseLineCaptureRegex(line)[2])]>>
    ELSE IF conditionLineRegex(line) # NoMatch THEN <<conditionToken(line, lineNo)>>
    ELSE IF propertyCaptureRegex(line) # NoMatch
    THEN <<[Token("Header", lineNo, line) EXCEPT
               !.Key = propertyCaptureRegex(line)[1],
               !.Value = strings_TrimSpace(propertyCaptureRegex(line)[2])]>>
    ELSE IF pathContRegex(line) # NoMatch /\ strings_HasPrefix(pathContRegex(line)[1], "/")
    THEN <<[Token("PathContinuation", lineNo, line) EXCEPT
               !.PathContinuation = pathContRegex(line)[1],
               !.PathSegments = parsePathSegments(pathContRegex(line)[1])]>>
    ELSE IF pathContRegex(line) # NoMatch
    THEN LET cont == pathContRegex(line)[1]
             pair == queryParamRegex(slice(cont, 1, Len(cont)))
         IN  <<[Token("QueryParam", lineNo, line) EXCEPT
                   !.Key = pair[1], !.Value = pair[2]]>>
    ELSE <<requestToken(line, lineNo)>>

RECURSIVE lexFrom(_, _)
lexFrom(fileText, i) ==
    IF i > Len(fileText) THEN <<>>
    ELSE lexLine(fileText[i], i) \o lexFrom(fileText, i + 1)

\* Lex never fails.
Lex(fileText) == [tokens |-> lexFrom(fileText, 1), err |-> NoError]

(***************************************************************************)
(* The parser of .apimock files: an optional request section, then the     *)
(* response sections.                                                      *)
(***************************************************************************)
ErrExpectedResponse == "expected at least one response section"

ErrInvalidStatusCode == "invalid HTTP status code"

MinHTTPStatusCode == 100

MaxHTTPStatusCode == 599

IsValidHTTPStatusCode(code) == code >= MinHTTPStatusCode /\ code <= MaxHTTPStatusCode

RECURSIVE strings_Join(_, _)
strings_Join(elems, sep) ==
    IF Len(elems) = 0 THEN ""
    ELSE IF Len(elems) = 1 THEN elems[1]
    ELSE elems[1] \o sep \o strings_Join(Tail(elems), sep)

\* tokens[i], i counted from 0.
tokenAt(toks, i) == toks[i + 1]

\* The index of the first token at or after i that is not a blank line.
RECURSIVE skipBlank(_, _)
skipBlank(toks, i) ==
    IF i < Len(toks) /\ tokenAt(toks, i).Type = "BlankLine"
    THEN skipBlank(toks, i + 1)
    ELSE i

NewRequestSection ==
    [Method |-> "", Path |-> "", PathSegments |-> <<>>, QueryParams |-> EmptyMap,
     Properties |-> EmptyMap, BodySchema |-> ""]

NewResponseSection ==
    [StatusCode |-> 0, Description |-> "", Properties |-> EmptyMap,
     Conditions |-> <<>>, Body |-> ""]

\* The loop of parseRequestSection and what follows its DONE label.
RECURSIVE requestLoop(_, _, _, _, _)
requestLoop(toks, i, inBody, req, bodyLines) ==
    LET tok == tokenAt(toks, i)
        done == [req |-> IF Len(bodyLines) > 0
                         THEN [req EXCEPT !.BodySchema = strings_Join(bodyLines, "\n")]
                         ELSE req,
                 i |-> i]
    IN  IF i >= Len(toks) THEN done
        ELSE IF tok.Type = "PathContinuation" /\ ~inBody
        THEN requestLoop(toks, i + 1, inBody,
                         [req EXCEPT !.Path = @ \o tok.PathContinuation,
                                     !.PathSegments = @ \o tok.PathSegments],
                         bodyLines)
        ELSE IF tok.Type = "QueryParam" /\ ~inBody
        THEN requestLoop(toks, i + 1, inBody,
                         [req EXCEPT !.QueryParams = MapPut(@, tok.Key, tok.Value)],
                         bodyLines)
        ELSE IF tok.Type = "Header" /\ inBody
        THEN requestLoop(toks, i + 1, inBody, req, Append(bodyLines, tok.Raw))
        ELSE IF tok.Type = "Header"
        THEN requestLoop(toks, i + 1, inBody,
                         [req EXCEPT !.Properties = MapPut(@, tok.Key, tok.Value)],
                         bodyLines)
        ELSE IF tok.Type = "BlankLine"
        THEN requestLoop(toks, i + 1, TRUE, req, bodyLines)
        ELSE IF tok.Type = "BodyLine"
        THEN requestLoop(toks, i + 1, TRUE, req, Append(bodyLines, tok.Raw))
        ELSE done

\* Called at a request line.
parseRequestSection(toks, i) ==
    requestLoop(toks, i + 1, FALSE,
                [NewRequestSection EXCEPT
                    !.Method = tokenAt(toks, i).Method,
                    !.Path = tokenAt(toks, i).Path,
                    !.PathSegments = tokenAt(toks, i).PathSegments],
                <<>>)

\* parseConditionLine on a token of the lexer.
parseConditionToken(tok) ==
    LET result == parseConditionLine(Parse(NewExpressionParser(tok.ConditionExpression)))
    IN  IF result.err # NoError THEN result
        ELSE [result EXCEPT !.line.IsOrCondition = tok.IsOrCondition]

\* The headers after the response line.
RECURSIVE responseProperties(_, _, _)
responseProperties(toks, i, resp) ==
    IF i < Len(toks) /\ tokenAt(toks, i).Type = "Header"
    THEN responseProperties(toks, i + 1,
                            [resp EXCEPT !.Properties =
                                MapPut(@, tokenAt(toks, i).Key, tokenAt(toks, i).Value)])
    ELSE [resp |-> resp, i |-> i]

\* The condition lines after the headers.
RECURSIVE responseConditions(_, _, _)
responseConditions(toks, i, resp) ==
    IF i < Len(toks) /\ tokenAt(toks, i).Type = "ConditionLine"
    THEN LET with(condition) ==
                 IF condition.err # NoError
                 THEN [resp |-> resp, err |-> condition.err, i |-> i]
                 ELSE responseConditions(toks, i + 1,
                                         [resp EXCEPT !.Conditions =
                                             Append(@, condition.line)])
         IN  with(parseConditionToken(tokenAt(toks, i)))
    ELSE [resp |-> resp, err |-> NoError, i |-> i]

\* The body lines up to the next response line or the first token of
\* another kind.
RECURSIVE responseBody(_, _, _)
responseBody(toks, i, bodyLines) ==
    IF i < Len(toks) /\ tokenAt(toks, i).Type \in {"BodyLine", "BlankLine", "Header"}
    THEN responseBody(toks, i + 1, Append(bodyLines, tokenAt(toks, i).Raw))
    ELSE [bodyLines |-> bodyLines, i |-> i]

RECURSIVE dropTrailingBlank(_)
dropTrailingBlank(bodyLines) ==
    IF Len(bodyLines) > 0 /\ strings_TrimSpace(bodyLines[Len(bodyLines)]) = ""
    THEN dropTrailingBlank(SubSeq(bodyLines, 1, Len(bodyLines) - 1))
    ELSE bodyLines

\* Called at a response line.
parseResponseSection(toks, i) ==
    LET start == [NewResponseSection EXCEPT
                     !.StatusCode = tokenAt(toks, i).StatusCode,
                     !.Description = tokenAt(toks, i).Description]
        withBody(resp, body) ==
            [resp |-> IF Len(dropTrailingBlank(body.bodyLines)) > 0
                      THEN [resp EXCEPT !.Body =
                               strings_Join(dropTrailingBlank(body.bodyLines), "\n")]
                      ELSE resp,
             err |-> NoError, i |-> body.i]
        withConditions(conds) ==
            IF conds.err # NoError THEN conds
            ELSE withBody(conds.resp,
                          responseBody(toks,
                                       IF conds.i < Len(toks)
                                          /\ tokenAt(toks, conds.i).Type = "BlankLine"
                                       THEN conds.i + 1 ELSE conds.i,
                                       <<>>))
        withProperties(props) ==
            withConditions(responseConditions(toks, props.i, props.resp))
    IN  IF ~IsValidHTTPStatusCode(start.StatusCode)
        THEN [resp |-> start, err |-> ErrInvalidStatusCode, i |-> i]
        ELSE withProperties(responseProperties(toks, i + 1, start))

\* The loop of Parse over the response sections.
RECURSIVE responsesLoop(_, _, _)
responsesLoop(toks, i, file) ==
    LET k == skipBlank(toks, i)
        with(section) ==
            IF section.err # NoError THEN [file |-> Nil, err |-> section.err]
            ELSE responsesLoop(toks, section.i,
                               [file EXCEPT !.Responses = Append(@, section.resp)])
    IN  IF k >= Len(toks) \/ tokenAt(toks, k).Type # "ResponseStart"
        THEN IF Len(file.Responses) = 0
             THEN [file |-> Nil, err |-> ErrExpectedResponse]
             ELSE [file |-> file, err |-> NoError]
        ELSE with(parseResponseSection(toks, k))

NewAPIMockFile == [Request |-> Nil, Responses |-> <<>>]

\* Parser.Parse on the lines of the file.
Parser_Parse(fileText) ==
    LET toks == Lex(fileText).tokens
        i == skipBlank(toks, 0)
        hasRequest == i < Len(toks) /\ tokenAt(toks, i).Type = "RequestLine"
        section == parseRequestSection(toks, i)
        j == IF hasRequest THEN skipBlank(toks, section.i) ELSE i
        file == IF hasRequest THEN [NewAPIMockFile EXCEPT !.Request = section.req]
                ELSE NewAPIMockFile
    IN  IF j >= Len(toks) \/ tokenAt(toks, j).Type # "ResponseStart"
        THEN [file |-> Nil, err |-> ErrExpectedResponse]
        ELSE responsesLoop(toks, j, file)

(***************************************************************************)
(* EvaluateConditions: the verdict of one condition block.  The record     *)
(* returned also says how many lines the loop evaluated before it          *)
(* returned.                                                               *)
(***************************************************************************)
Verdict(b, err, variables, n) ==
    [value |-> b, err |-> err, Variables |-> variables, evaluated |-> n,
     draws |-> 0]

\* conditionsLoop without the early return of a false AND line.
RECURSIVE conditionsLoop_NoShortCircuit(_, _, _, _)
conditionsLoop_NoShortCircuit(conds, i, result, ctx) ==
    IF i > Len(conds) THEN Verdict(result, NoError, ctx.Variables, i - 1)
    ELSE LET r == Evaluate(conds[i].Expression, ctx)
             next == Advance(ctx, r)
         IN  Drew(IF r.err # NoError THEN Verdict(FALSE, r.err, r.Variables, i)
                  ELSE IF r.value.k # "bool"
                       THEN Verdict(FALSE, ErrNotBoolean, r.Variables, i)
                  ELSE IF conds[i].IsOrCondition
                       THEN conditionsLoop_NoShortCircuit(conds, i + 1,
                                           IF r.value.b THEN TRUE ELSE result, next)
                  ELSE conditionsLoop_NoShortCircuit(conds, i + 1,
                                                     result /\ r.value.b, next),
                  r.draws)

\* conditionsLoop coercing a non-boolean line by truthiness.
Truthy(v) ==
    CASE v.k = "bool" -> v.b
      [] v.k = "float64" -> v.n # 0
      [] v.k = "string" -> v.s # ""
      [] v.k = "[]interface{}" -> Len(v.a) > 0
      [] OTHER -> FALSE

RECURSIVE conditionsLoop_Truthy(_, _, _, _)
conditionsLoop_Truthy(conds, i, result, ctx) ==
    IF i > Len(conds) THEN Verdict(result, NoError, ctx.Variables, i - 1)
    ELSE LET r == Evaluate(conds[i].Expression, ctx)
             next == Advance(ctx, r)
         IN  Drew(IF r.err # NoError THEN Verdict(FALSE, r.err, r.Variables, i)
                  ELSE IF conds[i].IsOrCondition
                       THEN conditionsLoop_Truthy(conds, i + 1,
                                           IF Truthy(r.value) THEN TRUE ELSE result, next)
                  ELSE IF ~(result /\ Truthy(r.value))
                       THEN Verdict(FALSE, NoError, r.Variables, i)
                  ELSE conditionsLoop_Truthy(conds, i + 1, TRUE, next),
                  r.draws)

RECURSIVE conditionsLoop(_, _, _, _)
conditionsLoop(conds, i, result, ctx) ==
    IF i > Len(conds) THEN Verdict(result, NoError, ctx.Variables, i - 1)
    ELSE LET r == Evaluate(conds[i].Expression, ctx)
             next == Advance(ctx, r)
         IN  Drew(IF r.err # NoError THEN Verdict(FALSE, r.err, r.Variables, i)
                  ELSE IF r.value.k # "bool"
                       THEN Verdict(FALSE, ErrNotBoolean, r.Variables, i)
                  ELSE IF conds[i].IsOrCondition
                       THEN conditionsLoop(conds, i + 1,
                                           IF r.value.b THEN TRUE ELSE result, next)
                  ELSE IF ~(result /\ r.value.b)
                       THEN Verdict(FALSE, NoError, r.Variables, i)
                  ELSE conditionsLoop(conds, i + 1, TRUE, next),
                  r.draws)

EvaluateConditions(conds, ctx) ==
    IF Len(conds) = 0 THEN Verdict(TRUE, NoError, ctx.Variables, 0)
    ELSE conditionsLoop(conds, 1, TRUE, ctx)

(***************************************************************************)
(* Condition lines, as the expression parser builds them from the text of  *)
(* the language documentation and of the tests.                            *)
(***************************************************************************)
Ref(name) == VariableReference(name, <<>>)

\* > True
LineTrue == BooleanValue(TRUE)

\* > False
LineFalse == BooleanValue(FALSE)

\* > missing == 1
LineUndefined == BinaryExpression(Ref("missing"), "==", NumberValue(1))

\* > 12
LineNumber == NumberValue(12)

\* > "Vanessa"
LineString == StringValue("Vanessa")

\* > {1, 2, 3}
LineTable == TableValue(<<NumberValue(1), NumberValue(2), NumberValue(3)>>)

\* > "2025" >> year
LineBindYear == Attribution(StringValue("2025"), <<"year">>)

\* > year == "2025"
LineYearIs == BinaryExpression(Ref("year"), "==", StringValue("2025"))

\* > headers["Authorization"] >> token
LineBindToken ==
    Attribution(VariableReference("headers",
                                  <<Access(IndexAccess, "Authorization")>>),
                <<"token">>)

\* > token == "" or not token
LineTokenMissing ==
    BinaryExpression(BinaryExpression(Ref("token"), "==", StringValue("")),
                     "or", UnaryExpression("not", Ref("token")))

\* > headers["Authorization"] == "Bearer valid-secret-123"
LineAuthorized ==
    BinaryExpression(VariableReference("headers",
                                       <<Access(IndexAccess, "Authorization")>>),
                     "==", StringValue("Bearer valid-secret-123"))

\* > method == "POST"
LineMethod == BinaryExpression(Ref("method"), "==", StringValue("POST"))

\* > path == "/api/users"
LinePath == BinaryExpression(Ref("path"), "==", StringValue("/api/users"))

\* > query["page"] == "2"
LineQuery ==
    BinaryExpression(VariableReference("query", <<Access(IndexAccess, "page")>>),
                     "==", StringValue("2"))

\* > body == "ping"
LineBody == BinaryExpression(Ref("body"), "==", StringValue("ping"))

\* > request.method == "POST"
LineRequestMethod ==
    BinaryExpression(VariableReference("request",
                                       <<Access(PropertyAccess, "method")>>),
                     "==", StringValue("POST"))

\* > not headers["authorization"]
LineNotHeader ==
    UnaryExpression("not", VariableReference("headers",
                               <<Access(IndexAccess, "authorization")>>))

\* > not query["page"]
LineNotQuery ==
    UnaryExpression("not", VariableReference("query",
                               <<Access(IndexAccess, "page")>>))

\* > not request.headers["authorization"]
LineNotRequestHeader ==
    UnaryExpression("not", VariableReference("request",
                               <<Access(PropertyAccess, "headers"),
                                 Access(IndexAccess, "authorization")>>))

\* > call_count > 3
LineCallCountAbove3 ==
    BinaryExpression(Ref("call_count"), ">", NumberValue(3))

CoreLines ==
    {LineTrue, LineFalse, LineUndefined, LineNumber, LineString, LineTable,
     LineBindYear, LineYearIs}

ContextLines ==
    {LineMethod, LinePath, LineQuery, LineBody, LineAuthorized, LineRequestMethod,
     LineNotHeader, LineNotQuery, LineNotRequestHeader, LineCallCountAbove3}

\* One call of every function of the validator's registry, with the target
\* and the arguments its signature asks for.
RegisteredCalls ==
    {FunctionCall(StringValue("2025-11-05"), "split", <<StringValue("-")>>),
     FunctionCall(StringValue("ana@example.com"), "contains", <<StringValue("@")>>),
     FunctionCall(StringValue("ana@example.com"), "not_contains",
                  <<StringValue("@")>>),
     FunctionCall(StringValue("Vanessa"), "matches", <<StringValue("ness")>>),
     FunctionCall(StringValue("Vanessa"), "upper", <<>>),
     FunctionCall(StringValue("Vanessa"), "lower", <<>>),
     FunctionCall(StringValue(" Vanessa "), "trim", <<>>),
     FunctionCall(StringValue("Vanessa"), "substring",
                  <<NumberValue(0), NumberValue(3)>>),
     FunctionCall(StringValue("Vanessa"), "len", <<>>),
     FunctionCall(StringValue("Vanessa"), "is_string", <<>>),
     FunctionCall(NumberValue(12), "is_number", <<>>),
     FunctionCall(BooleanValue(TRUE), "is_boolean", <<>>),
     FunctionCall(LineTable, "is_table", <<>>),
     FunctionCall(NumberValue(12), "round", <<>>),
     FunctionCall(NumberValue(12), "floor", <<>>),
     FunctionCall(NumberValue(12), "ceil", <<>>),
     FunctionCall(NumberValue(12), "abs", <<>>),
     FunctionCall(Nil, "random", <<>>),
     FunctionCall(Nil, "random_bool", <<>>),
     FunctionCall(Nil, "random_int", <<NumberValue(1), NumberValue(3)>>),
     FunctionCall(Nil, "random_float", <<NumberValue(1), NumberValue(3)>>),
     FunctionCall(LineTable, "random_choice", <<>>)}

\* Calls that the validator rejects, and calls it accepts that fail in the
\* function: an unregistered name, a missing and a surplus target, a
\* missing argument; a target of the wrong type, a pattern that does not
\* compile, indices out of bounds.
OtherCalls ==
    {FunctionCall(StringValue("Vanessa"), "reverse", <<>>),
     FunctionCall(Nil, "split", <<StringValue(" ")>>),
     FunctionCall(Ref("name"), "random_bool", <<>>),
     FunctionCall(StringValue("Vanessa"), "substring", <<NumberValue(0)>>),
     FunctionCall(NumberValue(12), "upper", <<>>),
     FunctionCall(StringValue("Vanessa"), "matches", <<StringValue("(")>>),
     FunctionCall(StringValue("Vanessa"), "substring",
                  <<NumberValue(3), NumberValue(12)>>)}

FunctionLines == RegisteredCalls \cup OtherCalls

\* The operands of the comparison lines: the context counter and literals of
\* the three comparable kinds.
EqualityOperands ==
    {Ref("call_count"), NumberValue(1), NumberValue(12), StringValue("2025"),
     StringValue("Vanessa"), BooleanValue(TRUE), BooleanValue(FALSE)}

\* > l == r and > l != r
EqualityLines ==
    {BinaryExpression(l, op, r) :
        l \in EqualityOperands, op \in {"==", "!="}, r \in EqualityOperands}

\* The values that a multi-variable attribution is given: a dictionary,
\* sequences shorter and longer than the variable list, and values that are
\* neither.
DestructureValues ==
    {TableDict([key \in {"x", "y"} |-> IF key = "x" THEN NumberValue(1)
                                      ELSE NumberValue(2)]),
     TableDict([key \in {"y"} |-> NumberValue(2)]),
     TableValue(<<NumberValue(1)>>),
     TableValue(<<NumberValue(1), NumberValue(2), NumberValue(3)>>),
     TableValue(<<>>), StringValue("1,2"), NumberValue(12), BooleanValue(TRUE)}

DestructureNames == {<<"x", "y">>, <<"y", "x">>, <<"a", "b">>}

\* > ("old" >> y) == (value >> names): y is bound before value is destructured.
DestructureLines ==
    {BinaryExpression(Attribution(StringValue("old"), <<"y">>), "==",
                      Attribution(v, names)) :
        v \in DestructureValues, names \in DestructureNames}

\* > .random_int 0 3 == 0
LineRandomIsZero ==
    BinaryExpression(FunctionCall(Nil, "random_int", <<NumberValue(0), NumberValue(3)>>),
                     "==", NumberValue(0))

\* The same line twice in one block.
RandomBlock ==
    <<ConditionLine(LineRandomIsZero, FALSE), ConditionLine(LineRandomIsZero, FALSE)>>

ConditionLines(lines) ==
    {ConditionLine(e, isOr) : e \in lines, isOr \in BOOLEAN}

SeqsUpTo(S, n) == UNION {[1..m -> S] : m \in 0..n}

\* The blocks of the language documentation's Authentication example, and the
\* one-line blocks over the request's context variables.
DocBlocks ==
    {<<ConditionLine(LineBindToken, FALSE), ConditionLine(LineTokenMissing, FALSE)>>,
     RandomBlock}
    \cup {<<ConditionLine(e, FALSE)>> : e \in ContextLines \cup EqualityLines \cup FunctionLines
                                         \cup DestructureLines}

Blocks == SeqsUpTo(ConditionLines(CoreLines), MaxLines) \cup DocBlocks

(***************************************************************************)
(* HTTP requests and the request context built from them.                  *)
(***************************************************************************)
AuthHeader == [h \in {"Authorization"} |-> "Bearer valid-secret-123"]

HttpRequest(method, path, query, header, body) ==
    [Method |-> method, Path |-> path, Query |-> query,
     Header |-> header, Body |-> body]

HttpRequests ==
    {HttpRequest("GET", "/api/users", [q \in {"page"} |-> "2"], EmptyMap, "ping"),
     HttpRequest("POST", "/api/users", EmptyMap, AuthHeader, "")}

\* strings.ToLower on the header names.
ToLower(s) == strings_ToLower(s)

buildRequestContext(r) ==
    LET keys == {ToLower(key) : key \in DOMAIN r.Header}
    IN  RequestContext(r.Method, r.Path, r.Query,
                       [key \in keys |->
                           r.Header[CHOOSE h \in DOMAIN r.Header : ToLower(h) = key]],
                       r.Body)

(***************************************************************************)
(* The server: one endpoint, its mock file and its handler.                *)
(***************************************************************************)
Route == "GET /api/users"

\* The values time.Now().UnixNano() seeds a generator with.
Seeds == 0..MaxSeed

Handlers == {"h1", "h2"}

ResponseSection(conds) == [Conditions |-> conds]

\* What the handler writes: a response of the schema with its body
\* interpolated from the execution context, the empty response (204), or the
\* reply to a request body that the schema validator rejected (400).
Response(i, ctx) ==
    [kind |-> "response", index |-> i,
     interpolated |-> [call_count |-> ctx.CallCount, Variables |-> ctx.Variables]]

EmptyResponse == [kind |-> "empty"]

BadRequest == [kind |-> "bad request"]

Selection(resp, trace) == [resp |-> resp, trace |-> trace]

\* One iteration of the selection loop: the section tried, the variables of
\* the shared context on entry, and what EvaluateConditions returned.
Tried(i, entry, v) ==
    [index |-> i, entry |-> entry, conditionsMet |-> v.value, err |-> v.err]

\* selectLoop falling back to the last response instead of the first.
RECURSIVE selectLoop_FallbackLast(_, _, _, _, _)
selectLoop_FallbackLast(responses, ast, i, ctx, trace) ==
    IF i > Len(ast.Responses) \/ i > Len(responses)
    THEN IF Len(responses) > 0
         THEN Selection(Response(responses[Len(responses)], ctx), trace)
         ELSE Selection(EmptyResponse, trace)
    ELSE IF Len(ast.Responses[i].Conditions) = 0
         THEN Selection(Response(responses[i], ctx), trace)
    ELSE LET v == EvaluateConditions(ast.Responses[i].Conditions, ctx)
             next == Advance(ctx, v)
             seen == Append(trace, Tried(i, ctx.Variables, v))
         IN  IF v.err # NoError
             THEN selectLoop_FallbackLast(responses, ast, i + 1, next, seen)
             ELSE IF v.value THEN Selection(Response(responses[i], next), seen)
             ELSE selectLoop_FallbackLast(responses, ast, i + 1, next, seen)

\* selectLoop ending the selection at a block that raised an error.
RECURSIVE selectLoop_ErrorAborts(_, _, _, _, _)
selectLoop_ErrorAborts(responses, ast, i, ctx, trace) ==
    IF i > Len(ast.Responses) \/ i > Len(responses)
    THEN IF Len(responses) > 0
         THEN Selection(Response(responses[1], ctx), trace)
         ELSE Selection(EmptyResponse, trace)
    ELSE IF Len(ast.Responses[i].Conditions) = 0
         THEN Selection(Response(responses[i], ctx), trace)
    ELSE LET v == EvaluateConditions(ast.Responses[i].Conditions, ctx)
             next == Advance(ctx, v)
             seen == Append(trace, Tried(i, ctx.Variables, v))
         IN  IF v.err # NoError THEN Selection(EmptyResponse, seen)
             ELSE IF v.value THEN Selection(Response(responses[i], next), seen)
             ELSE selectLoop_ErrorAborts(responses, ast, i + 1, next, seen)

RECURSIVE selectLoop(_, _, _, _, _)
selectLoop(responses, ast, i, ctx, trace) ==
    IF i > Len(ast.Responses) \/ i > Len(responses)
    THEN IF Len(responses) > 0
         THEN Selection(Response(responses[1], ctx), trace)
         ELSE Selection(EmptyResponse, trace)
    ELSE IF Len(ast.Responses[i].Conditions) = 0
         THEN Selection(Response(responses[i], ctx), trace)
    ELSE LET v == EvaluateConditions(ast.Responses[i].Conditions, ctx)
             next == Advance(ctx, v)
             seen == Append(trace, Tried(i, ctx.Variables, v))
         IN  IF v.err # NoError THEN selectLoop(responses, ast, i + 1, next, seen)
             ELSE IF v.value THEN Selection(Response(responses[i], next), seen)
             ELSE selectLoop(responses, ast, i + 1, next, seen)

\* now is the time that seeds the execution context's generator.
selectResponseWithConditions(responses, reqCtx, cc, ast, now) ==
    IF ast = Nil \/ Len(ast.Responses) = 0
    THEN IF Len(responses) > 0
         THEN Selection([kind |-> "response", index |-> responses[1],
                         interpolated |-> Nil], <<>>)
         ELSE Selection(EmptyResponse, <<>>)
    ELSE selectLoop(responses, ast, 1, NewExecutionContext(cc, reqCtx, now), <<>>)

\* IncrementCallCount losing the second increment of an endpoint.
IncrementCallCount_LostUpdate(counts, endpoint) ==
    [counts EXCEPT ![endpoint] = IF @ = 1 THEN 1 ELSE @ + 1]

IncrementCallCount(counts, endpoint) ==
    [counts EXCEPT ![endpoint] = @ + 1]

SectionLines == {LineTrue, LineFalse, LineUndefined, LineBindYear, LineYearIs,
                 LineAuthorized, LineRequestMethod, LineCallCountAbove3}

SectionBlocks == {<<>>} \cup {<<ConditionLine(e, FALSE)>> : e \in SectionLines}

MockFiles ==
    {[Responses |-> [i \in DOMAIN b |-> ResponseSection(b[i])]] :
        b \in UNION {[1..m -> SectionBlocks] : m \in 1..MaxResponses}}

\* FromAPIMockFile: one response per section, in file order; the schema
\* validator is present when the file's request section has a body schema.
Schema(file, validator) ==
    [Route |-> Route, Responses |-> [i \in DOMAIN file.Responses |-> i],
     Validator |-> validator]

ServerInit ==
    /\ \E file \in MockFiles, validator \in BOOLEAN :
          /\ schema = Schema(file, validator)
          /\ astCache \in {file, Nil}
    /\ callCounts = [r \in {Route} |-> 0]
    /\ pc = [h \in Handlers |-> "idle"]
    /\ request = [h \in Handlers |-> Nil]
    /\ callCount = [h \in Handlers |-> 0]
    /\ served = [h \in Handlers |-> Nil]

ParserIdle ==
    /\ source = ""
    /\ parser = Nil
    /\ parsed = Pending
    /\ validated = Pending

FileIdle ==
    /\ fileLines = <<>>
    /\ fileTokens = Pending
    /\ fileAST = Pending

HarnessIdle ==
    /\ conditions = <<>>
    /\ context = Nil
    /\ outcome = Pending
    /\ ParserIdle
    /\ FileIdle

\* createHandlerFromEndpoint, up to the call-count increment (made under the
\* state manager's lock).
HandlerIncrement(h, r) ==
    /\ pc[h] \in {"idle", "served"}
    /\ callCounts[schema.Route] < MaxCalls
    /\ callCounts' = IncrementCallCount(callCounts, schema.Route)
    /\ callCount' = [callCount EXCEPT ![h] = callCounts'[schema.Route]]
    /\ request' = [request EXCEPT ![h] = r]
    /\ served' = [served EXCEPT ![h] = Nil]
    /\ pc' = [pc EXCEPT ![h] = "counted"]
    /\ UNCHANGED <<astCache, schema>>
    /\ UNCHANGED harnessVars

\* createHandlerFromEndpoint, the rest: request context, body validation,
\* response selection, write.  bodyValid is the schema validator's answer.
HandlerRespond(h, bodyValid, now) ==
    /\ pc[h] = "counted"
    /\ schema.Validator \/ bodyValid
    /\ LET reqCtx == buildRequestContext(request[h])
       IN  served' = [served EXCEPT ![h] =
               IF schema.Validator /\ ~bodyValid
               THEN Selection(BadRequest, <<>>)
               ELSE selectResponseWithConditions(schema.Responses, reqCtx,
                                                 callCount[h], astCache, now)]
    /\ pc' = [pc EXCEPT ![h] = "served"]
    /\ UNCHANGED <<astCache, schema, callCounts, request, callCount>>
    /\ UNCHANGED harnessVars

Init == ServerInit /\ HarnessIdle

Next ==
    \/ \E h \in Handlers, r \in HttpRequests : HandlerIncrement(h, r)
    \/ \E h \in Handlers, bodyValid \in BOOLEAN, now \in Seeds :
          HandlerRespond(h, bodyValid, now)

Spec == Init /\ [][Next]_vars

(***************************************************************************)
(* The evaluator on its own: one condition block evaluated in a fresh      *)
(* execution context.                                                      *)
(***************************************************************************)
ServerIdle ==
    /\ schema = Schema([Responses |-> <<ResponseSection(<<>>)>>], FALSE)
    /\ astCache = Nil
    /\ callCounts = [r \in {Route} |-> 0]
    /\ pc = [h \in Handlers |-> "idle"]
    /\ request = [h \in Handlers |-> Nil]
    /\ callCount = [h \in Handlers |-> 0]
    /\ served = [h \in Handlers |-> Nil]

EvaluatorInit ==
    /\ conditions \in Blocks
    /\ \E cc \in {1, MaxCalls}, r \in HttpRequests, seed \in Seeds :
          context = NewExecutionContext(cc, buildRequestContext(r), seed)
    /\ outcome = Pending
    /\ ServerIdle
    /\ ParserIdle
    /\ FileIdle

RunEvaluateConditions ==
    /\ outcome = Pending
    /\ outcome' = EvaluateConditions(conditions, context)
    /\ UNCHANGED <<conditions, context>>
    /\ UNCHANGED serverVars
    /\ UNCHANGED parserVars
    /\ UNCHANGED fileVars

NextEvaluator == RunEvaluateConditions

SpecEvaluator == EvaluatorInit /\ [][NextEvaluator]_vars

(***************************************************************************)
(* The expression parser on its own: one text tokenized, then parsed.      *)
(***************************************************************************)
\* The texts of the documentation and of the parser's tests.
DocTexts ==
    {"date >> .split \"-\" >> year, month, day", "email >> .contains \"@\"",
     "date . split \"-\" >> year, month, day", "email . contains \"@\"",
     "\"2025-10-06\" . split \"-\" >> year, month, day",
     "\"ana@example.com\" . contains \"@\"",
     "user", "user.name", "user[\"email\"]", "user.address.city",
     "user.contacts[0].email", "user . name", "user . contacts[0] . email",
     ".random", ".random_int 1 100", "name.upper", "name.substring 0 5",
     "name.upper.substring 0 5", "name . upper", "\"Vanessa\" . upper",
     "\"Vanessa\" . substring 0 5", "\"Vanessa\" . upper . substring 0 5",
     "{}", "{1, 2, 3}", "{name = \"John\", age = 30}", "{1, {2, 3}, 4}",
     "1..10", "1 .. 10", "0.5..1.5", "", "not True", "(1 + 2) * 3"}

\* The texts of the validator's tests on target usage, and the same calls
\* written on a string literal.
TargetTexts ==
    {".split \" \"", ".contains \"test\"", ".trim", "name.random_bool",
     "name . random_bool", "\"x\" . random_bool", "\"a b\" . split \" \"",
     ".random_bool"}

\* Malformed texts: an unclosed parenthesis, an operator without right
\* operand, unclosed and mismatched brackets, unterminated strings.
MalformedTexts ==
    {"(1 + 2", "1 +", "user[\"name\"", "user[0", "user[0)", "(1 + 2]", "{1, 2",
     "x == ", "not", "\"abc", "x == \"abc", "name >> "}

Atoms == {"1", "x", "\"s\"", "True"}

Infixes == {" + ", " * ", " == ", " and ", " or ", " .. ", " >> "}

\* One binary operator between two atoms.
InfixTexts == {a \o op \o b : a \in Atoms, op \in Infixes, b \in Atoms}

\* The binary operators of the levels that loop or compare, and the level of
\* each in the call chain parseLogicalOr .. parseMulDiv (1 is the outermost).
LevelOps == {"or", "and", "==", "<", "..", "+", "-", "*", "/", "%", "//"}

Level(op) ==
    CASE op = "or" -> 1
      [] op = "and" -> 2
      [] op = ">>" -> 3
      [] isComparisonOp(op) -> 4
      [] op = ".." -> 5
      [] op \in {"+", "-"} -> 6
      [] OTHER -> 7

TwoOperators(op1, op2) == "1 " \o op1 \o " 2 " \o op2 \o " 3"

NotThen(op) == "not 1 " \o op \o " 2"

\* Two operators between three numbers, not before an operator, and >> next
\* to its neighbouring levels.
PrecedenceTexts ==
    {TwoOperators(op1, op2) : op1 \in LevelOps, op2 \in LevelOps}
        \cup {NotThen(op) : op \in LevelOps}
        \cup {"1 + 2 * 3", "True or False and True", "x > 5 and y < 10",
              "\"a\" .. \"b\" == \"ab\"", "10 / 2",
              "1 and 2 >> x", "1 or 2 >> x", "1 >> x and 2", "1 == 2 >> x",
              "1 .. 2 >> x"}

\* Texts with tokens after a complete expression.
LeftoverTexts ==
    {"1 2", "a == 1 )", "1 < 2 < 3", "1 >> x >> y", "x y", "(1) 2", "1 not"}

\* The complex expressions of the parser's tests.
ComplexTexts ==
    {"request.method == \"POST\" and request.body.email >> email",
     "x == \"POST\" and y >> email",
     ".random_int 1 100 > 50",
     "(x > 0 and x < 10) or (x > 90 and x < 100)",
     "{status = \"ok\", count = 10} >> response"}

\* Tables with calls and attributions inside.
TableTexts ==
    {"{.unknown_fn}", "{.split \" \"}", "{a = .unknown_fn}", "{1 >> x}",
     "{.random}", "{a = .random}", "{1, {.unknown_fn}}", "{.random_int 1}",
     "{name.random_bool}", ".unknown_fn", ".random_int 1", "{1, 2} >> x",
     "{\"a\" . unknown_fn}", "{\"a\" . upper}"}

Texts ==
    DocTexts \cup MalformedTexts \cup InfixTexts \cup TargetTexts
        \cup PrecedenceTexts \cup LeftoverTexts \cup ComplexTexts \cup TableTexts

ParserInit ==
    /\ source \in Texts
    /\ parser = Nil
    /\ parsed = Pending
    /\ validated = Pending
    /\ ServerIdle
    /\ FileIdle
    /\ conditions = <<>>
    /\ context = Nil
    /\ outcome = Pending

RunNewExpressionParser ==
    /\ parser = Nil
    /\ parser' = NewExpressionParser(source)
    /\ UNCHANGED <<source, parsed, validated>>
    /\ UNCHANGED serverVars
    /\ UNCHANGED evaluatorVars
    /\ UNCHANGED fileVars

RunParse ==
    /\ parser # Nil
    /\ parsed = Pending
    /\ parsed' = Parse(parser)
    /\ parser' = [parser EXCEPT !.pos = Parse(parser).pos]
    /\ UNCHANGED <<source, validated>>
    /\ UNCHANGED serverVars
    /\ UNCHANGED evaluatorVars
    /\ UNCHANGED fileVars

\* parseConditionLine after Parse: a parse error is wrapped, an expression
\* goes to ValidateConditionLine.
RunValidateConditionLine ==
    /\ parsed # Pending
    /\ validated = Pending
    /\ validated' = parseConditionLine(parsed)
    /\ UNCHANGED <<source, parser, parsed>>
    /\ UNCHANGED serverVars
    /\ UNCHANGED evaluatorVars
    /\ UNCHANGED fileVars

NextParser == RunNewExpressionParser \/ RunParse \/ RunValidateConditionLine

SpecParser == ParserInit /\ [][NextParser]_vars

(***************************************************************************)
(* The lexer and the parser of mock files on a file of a few lines.        *)
(***************************************************************************)
MaxFileLines == 3

\* Lines of every kind the lexer tells apart.
FileLineTexts ==
    {"-- 200: OK", "-- 404: Not Found", "-- 999: Bad", "> x == \"a#b\"",
     "> or True # note", "Content-Type: text/plain", "hello", "",
     "/api/users", "GET /api/users", "  /{id}", "  ?page=1"}

\* The files of up to MaxFileLines lines, and those of a response line
\* followed by MaxFileLines lines.
Files ==
    UNION {[1..n -> FileLineTexts] : n \in 0..MaxFileLines}
        \cup {<<"-- 200: OK">> \o rest : rest \in [1..MaxFileLines -> FileLineTexts]}

FileInit ==
    /\ fileLines \in Files
    /\ fileTokens = Pending
    /\ fileAST = Pending
    /\ ServerIdle
    /\ ParserIdle
    /\ conditions = <<>>
    /\ context = Nil
    /\ outcome = Pending

\* NewLexer(lines).Lex()
RunLex ==
    /\ fileTokens = Pending
    /\ fileTokens' = Lex(fileLines)
    /\ UNCHANGED <<fileLines, fileAST>>
    /\ UNCHANGED serverVars
    /\ UNCHANGED <<evaluatorVars, parserVars>>

\* Parser.Parse on the parser NewParser made of the file.
RunParserParse ==
    /\ fileAST = Pending
    /\ fileAST' = Parser_Parse(fileLines)
    /\ UNCHANGED <<fileLines, fileTokens>>
    /\ UNCHANGED serverVars
    /\ UNCHANGED <<evaluatorVars, parserVars>>

NextFile == RunLex \/ RunParserParse

SpecFile == FileInit /\ [][NextFile]_vars

(***************************************************************************)
(* Properties.  lineResults evaluates every line of a block in order, each *)
(* in the variables its predecessors left, whatever the block's verdict.   *)
(***************************************************************************)
RECURSIVE lineResults(_, _, _)
lineResults(conds, i, ctx) ==
    IF i > Len(conds) THEN <<>>
    ELSE LET r == Evaluate(conds[i].Expression, ctx)
         IN  <<r>> \o lineResults(conds, i + 1, Advance(ctx, r))

Lines == lineResults(conditions, 1, context)

IsTrue(r) == r.err = NoError /\ r.value = VBool(TRUE)

IsFalse(r) == r.err = NoError /\ r.value = VBool(FALSE)

IsBoolean(r) == r.err = NoError /\ r.value.k = "bool"

Evaluated == outcome # Pending

AndLines == {j \in DOMAIN conditions : ~conditions[j].IsOrCondition}

OrLines == {j \in DOMAIN conditions : conditions[j].IsOrCondition}

AndBeforeOr == \A a \in AndLines, o \in OrLines : a < o

\* C1: for a block whose AND lines all precede its OR lines and whose lines
\* all evaluate to booleans, EvaluateConditions returns (conjunction of the
\* AND lines) or (disjunction of the OR lines), without error.
C1_AndLinesOrOrLines ==
    (Evaluated /\ AndBeforeOr /\ \A j \in DOMAIN conditions : IsBoolean(Lines[j]))
    => /\ outcome.err = NoError
       /\ outcome.value = ((\A j \in AndLines : IsTrue(Lines[j]))
                           \/ (\E j \in OrLines : IsTrue(Lines[j])))

\* C5: in a block of AND lines only, the first line that evaluates to false
\* ends the evaluation: the verdict is false without error, no later line is
\* evaluated, and the variables are those the false line left.
C5_AndShortCircuit ==
    (Evaluated /\ OrLines = {})
    => \A j \in DOMAIN conditions :
          (IsFalse(Lines[j]) /\ \A i \in 1..(j - 1) : IsTrue(Lines[i]))
          => [outcome EXCEPT !.draws = 0]
                = Verdict(FALSE, NoError, Lines[j].Variables, j)

\* C5 witness: [False, <error-raising>, <attribution>] was evaluated: the
\* second line's error was not raised, the third line's name is not bound.
C5_Witness ==
    /\ Evaluated
    /\ OrLines = {}
    /\ Len(conditions) = 3
    /\ IsFalse(Lines[1])
    /\ Lines[2].err # NoError
    /\ conditions[3].Expression.type = "Attribution"
    /\ outcome.value = FALSE
    /\ outcome.err = NoError
    /\ outcome.Variables = EmptyMap

C7_AttributionCountsAsTrue ==
    (/\ Evaluated
     /\ OrLines = {}
     /\ \E j \in DOMAIN conditions : conditions[j].Expression.type = "Attribution"
     /\ \A j \in DOMAIN conditions :
           \/ IsTrue(Lines[j])
           \/ conditions[j].Expression.type = "Attribution" /\ Lines[j].err = NoError)
    => /\ outcome.value = TRUE
       /\ outcome.err = NoError

AuthenticationBlock ==
    <<ConditionLine(LineBindToken, FALSE), ConditionLine(LineTokenMissing, FALSE)>>

\* C8: the Authentication example's first block, evaluated against a request
\* without Authorization header, evaluates to true with no error.
C8_MissingTokenBlockIsTrue ==
    (/\ Evaluated
     /\ conditions = AuthenticationBlock
     /\ "authorization" \notin DOMAIN context.Request.Headers)
    => /\ outcome.value = TRUE
       /\ outcome.err = NoError

\* What a one-line block over a context variable is to yield for a request.
ContextLineHolds(e, req) ==
    CASE e = LineMethod -> req.Method = "POST"
      [] e = LinePath -> req.Path = "/api/users"
      [] e = LineQuery -> "page" \in DOMAIN req.Query /\ req.Query["page"] = "2"
      [] e = LineBody -> req.Body = "ping"
      [] e = LineAuthorized ->
            /\ "authorization" \in DOMAIN req.Headers
            /\ req.Headers["authorization"] = "Bearer valid-secret-123"

\* C9: method, path, headers, query and body as the base of a variable
\* reference resolve to the request's fields and raise no undefined-variable
\* error.
C9_ContextNamesResolve ==
    \A e \in {LineMethod, LinePath, LineQuery, LineBody, LineAuthorized} :
        (Evaluated /\ conditions = <<ConditionLine(e, FALSE)>>)
        => /\ outcome.err = NoError
           /\ outcome.value = ContextLineHolds(e, context.Request)

\* C11: not headers["k"] and not query["k"] evaluate without error, to true
\* when the request has no header (query parameter) k and to false when it
\* has one with a non-empty value.
C11_NotOfMissingKey ==
    /\ (Evaluated /\ conditions = <<ConditionLine(LineNotHeader, FALSE)>>)
       => /\ outcome.err = NoError
          /\ outcome.value = ("authorization" \notin DOMAIN context.Request.Headers)
    /\ (Evaluated /\ conditions = <<ConditionLine(LineNotQuery, FALSE)>>)
       => /\ outcome.err = NoError
          /\ outcome.value = ("page" \notin DOMAIN context.Request.Query)

\* C11, the headers reached through request: not of the header's value
\* evaluates without error.
C11_NotOfRequestHeader ==
    (Evaluated /\ conditions = <<ConditionLine(LineNotRequestHeader, FALSE)>>)
    => outcome.err = NoError

(***************************************************************************)
(* Properties of the handler.  entryVariables and sectionMatches say what  *)
(* each section's block evaluates to in the request's execution context,   *)
(* the blocks evaluated in file order.                                     *)
(***************************************************************************)
HandlerContext(h) ==
    NewExecutionContext(callCount[h], buildRequestContext(request[h]), 0)

RECURSIVE entryVariables(_, _, _)
entryVariables(ast, i, ctx) ==
    IF i = 1 THEN ctx.Variables
    ELSE LET before == entryVariables(ast, i - 1, ctx)
             conds == ast.Responses[i - 1].Conditions
         IN  IF Len(conds) = 0 THEN before
             ELSE EvaluateConditions(conds,
                                     [ctx EXCEPT !.Variables = before]).Variables

sectionVerdict(ast, i, ctx) ==
    EvaluateConditions(ast.Responses[i].Conditions,
                       [ctx EXCEPT !.Variables = entryVariables(ast, i, ctx)])

sectionMatches(ast, i, ctx) ==
    \/ Len(ast.Responses[i].Conditions) = 0
    \/ sectionVerdict(ast, i, ctx).err = NoError /\ sectionVerdict(ast, i, ctx).value

Matching(h) ==
    {i \in DOMAIN astCache.Responses : sectionMatches(astCache, i, HandlerContext(h))}

\* The handler has selected a response from the parsed file (the request
\* body, if validated, was accepted).
Selected(h) ==
    /\ pc[h] = "served"
    /\ astCache # Nil
    /\ served[h].resp # BadRequest

C3_ErrorSkipsSection ==
    \A h \in Handlers :
        Selected(h)
        => \A k \in DOMAIN served[h].trace :
              LET t == served[h].trace[k]
              IN  t.err # NoError
                  => /\ served[h].resp.kind = "response"
                     /\ IF t.index = Len(astCache.Responses)
                        THEN k = Len(served[h].trace) /\ served[h].resp.index = 1
                        ELSE IF Len(astCache.Responses[t.index + 1].Conditions) = 0
                        THEN k = Len(served[h].trace)
                             /\ served[h].resp.index = t.index + 1
                        ELSE /\ k < Len(served[h].trace)
                             /\ served[h].trace[k + 1].index = t.index + 1

\* C3 witness: the first section's block raised an error and the second
\* section, whose block then evaluated to true, was served.
C3_Witness ==
    \E h \in Handlers :
        /\ Selected(h)
        /\ Len(served[h].trace) = 2
        /\ served[h].trace[1].err # NoError
        /\ served[h].trace[2].conditionsMet
        /\ served[h].resp.kind = "response"
        /\ served[h].resp.index = 2

\* C4: every condition block of a request is evaluated from an empty
\* variable map: no block sees a variable bound by another block.
C4_BlocksStartEmpty ==
    \A h \in Handlers :
        Selected(h)
        => \A k \in DOMAIN served[h].trace : served[h].trace[k].entry = EmptyMap

\* C10: for a request carrying Authorization: Bearer valid-secret-123, the
\* block > headers["Authorization"] == "Bearer valid-secret-123" evaluates to
\* true.
C10_AuthorizationHeaderFound ==
    \A h \in Handlers :
        (/\ Selected(h)
         /\ "Authorization" \in DOMAIN request[h].Header
         /\ request[h].Header["Authorization"] = "Bearer valid-secret-123")
        => \A k \in DOMAIN served[h].trace :
              astCache.Responses[served[h].trace[k].index].Conditions
                  = <<ConditionLine(LineAuthorized, FALSE)>>
              => /\ served[h].trace[k].err = NoError
                 /\ served[h].trace[k].conditionsMet

(***************************************************************************)
(* The call count.                                                         *)
(***************************************************************************)
CallCountBlock == <<ConditionLine(LineCallCountAbove3, FALSE)>>

\* C12: whenever a request's selection evaluates the block call_count > 3,
\* the block evaluates without error, to false for the 1st, 2nd and 3rd
\* request of the endpoint and to true for the 4th and every later one.
C12_CallCountAbove3 ==
    \A h \in Handlers :
        Selected(h)
        => \A k \in DOMAIN served[h].trace :
              LET t == served[h].trace[k]
              IN  astCache.Responses[t.index].Conditions = CallCountBlock
                  => /\ t.err = NoError
                     /\ t.conditionsMet = (callCount[h] \notin {1, 2, 3})

\* C12 witness: the endpoint's third request was served the second section
\* after call_count > 3 was false, its fourth request the first section.
C12_Witness ==
    \E g, h \in Handlers :
        /\ Selected(g) /\ Selected(h)
        /\ Len(astCache.Responses) = 2
        /\ astCache.Responses[1].Conditions = CallCountBlock
        /\ astCache.Responses[2].Conditions = <<>>
        /\ callCount[g] = 3 /\ served[g].resp.index = 2
        /\ callCount[h] = 4 /\ served[h].resp.index = 1

\* The handlers that start a request in a step.
Started == {h \in Handlers : pc[h] # "counted" /\ pc'[h] = "counted"}

\* C13: every request that a handler starts adds exactly one to the count of
\* its endpoint and observes the count after its own increment; the count
\* changes in no other step, and the requests in progress or served hold
\* pairwise different counts.
C13_OneIncrementPerRequest ==
    /\ [][/\ callCounts'[Route] = callCounts[Route] + Cardinality(Started)
          /\ \A h \in Started : callCount'[h] = callCounts'[Route]]_vars
    /\ [](\A g, h \in Handlers :
             (g # h /\ pc[g] # "idle" /\ pc[h] # "idle")
             => callCount[g] # callCount[h])
    /\ [](\A h \in Handlers : pc[h] # "idle" => callCount[h] \in 1..callCounts[Route])

\* C13 witness: two requests are in progress at once, both counted and
\* neither answered, after earlier requests of the same endpoint.
C13_Witness ==
    /\ \A h \in Handlers : pc[h] = "counted"
    /\ callCounts[Route] = MaxCalls
    /\ {callCount[h] : h \in Handlers} = {MaxCalls - 1, MaxCalls}

(***************************************************************************)
(* Equality.                                                               *)
(***************************************************************************)
\* What an operand of a comparison line denotes: its kind and its value.
Denotes(e, ctx) ==
    CASE e.type = "NumberValue" -> <<"number", e.Value>>
      [] e.type = "StringValue" -> <<"string", e.Value>>
      [] e.type = "BooleanValue" -> <<"boolean", e.Value>>
      [] e.type = "VariableReference" -> <<"number", ctx.CallCount>>

ComparisonOf(l, op, r) == <<ConditionLine(BinaryExpression(l, op, r), FALSE)>>

\* C14: l == r evaluates without error to true exactly when l and r are of
\* the same kind and equal, the context counter being a number, and l != r
\* to the negation.
C14_EqualsBySameKindAndValue ==
    \A l, r \in EqualityOperands :
        /\ (Evaluated /\ conditions = ComparisonOf(l, "==", r))
           => /\ outcome.err = NoError
              /\ outcome.value = (Denotes(l, context) = Denotes(r, context))
        /\ (Evaluated /\ conditions = ComparisonOf(l, "!=", r))
           => /\ outcome.err = NoError
              /\ outcome.value = (Denotes(l, context) # Denotes(r, context))

(***************************************************************************)
(* The function library.                                                   *)
(***************************************************************************)
\* C15: a block whose lines the validator accepts does not fail with the
\* unknown-function error in any line that is evaluated.
C15_RegisteredFunctionsDispatched ==
    (Evaluated /\ ValidateConditions(conditions) = NoError)
    => \A j \in 1..outcome.evaluated : Lines[j].err # ErrUnknownFunction

(***************************************************************************)
(* Properties of the parser.                                               *)
(***************************************************************************)
ParseDone == parsed # Pending

\* The value and the variables that the parsed expression leaves when it is
\* evaluated with the given variables bound.
EvaluateParsed(variables) ==
    Evaluate(parsed.expr,
             [NewExecutionContext(1, RequestContext("GET", "/", EmptyMap, EmptyMap, ""), 0)
                 EXCEPT !.Variables = variables])

Bound(name, str) == MapPut(EmptyMap, name, VString(str))

\* C16: date >> .split "-" >> year, month, day parses and, evaluated, binds
\* the three parts of date; email >> .contains "@" parses and evaluates to
\* whether email contains "@".
C16_PipedFunctionCall ==
    /\ (ParseDone /\ source = "date >> .split \"-\" >> year, month, day")
       => /\ parsed.err = NoError
          /\ LET r == EvaluateParsed(Bound("date", "2025-10-06"))
             IN  /\ r.err = NoError
                 /\ {"year", "month", "day"} \subseteq DOMAIN r.Variables
                 /\ r.Variables["year"] = VString("2025")
                 /\ r.Variables["month"] = VString("10")
                 /\ r.Variables["day"] = VString("06")
    /\ (ParseDone /\ source = "email >> .contains \"@\"")
       => /\ parsed.err = NoError
          /\ \A email \in {"ana@example.com", "ana"} :
                LET r == EvaluateParsed(Bound("email", email))
                IN  /\ r.err = NoError
                    /\ r.value = VBool(strings_Contains(email, "@"))

\* C17: user.name parses to the reference user with the property access
\* name, user.contacts[0].email to user with property contacts, index "0",
\* property email.
C17_AccessPathKept ==
    /\ (ParseDone /\ source = "user.name")
       => /\ parsed.err = NoError
          /\ parsed.expr =
                VariableReference("user", <<Access(PropertyAccess, "name")>>)
    /\ (ParseDone /\ source = "user.contacts[0].email")
       => /\ parsed.err = NoError
          /\ parsed.expr =
                VariableReference("user", <<Access(PropertyAccess, "contacts"),
                                           Access(IndexAccess, "0"),
                                           Access(PropertyAccess, "email")>>)

\* C18: name.upper parses to the call of upper on name without arguments,
\* name.substring 0 5 to the call with arguments 0 and 5, and
\* name.upper.substring 0 5 to the call of substring on the call name.upper.
C18_MethodCalls ==
    /\ (ParseDone /\ source = "name.upper")
       => /\ parsed.err = NoError
          /\ parsed.expr = FunctionCall(Ref("name"), "upper", <<>>)
    /\ (ParseDone /\ source = "name.substring 0 5")
       => /\ parsed.err = NoError
          /\ parsed.expr = FunctionCall(Ref("name"), "substring",
                                        <<NumberValue(0), NumberValue(5)>>)
    /\ (ParseDone /\ source = "name.upper.substring 0 5")
       => /\ parsed.err = NoError
          /\ parsed.expr = FunctionCall(FunctionCall(Ref("name"), "upper", <<>>),
                                        "substring",
                                        <<NumberValue(0), NumberValue(5)>>)

\* C19: 1..10 parses to the range from 1 to 10.
C19_RangeLiteral ==
    (ParseDone /\ source = "1..10")
    => /\ parsed.err = NoError
       /\ parsed.expr = RangeValue(1, 10)

\* No text parses to a range: the tokenizer joins digits and dots into one
\* token, and parsePrimary asks isNumber before it asks isRange.
NoRangeParsed ==
    ParseDone /\ parsed.err = NoError => parsed.expr.type # "RangeValue"

\* C20: Parse returns an error, and no expression, for every malformed text.
C20_MalformedRejected ==
    (ParseDone /\ source \in MalformedTexts)
    => parsed.err # NoError /\ parsed.expr = Nil

ValidateDone == validated # Pending

\* C21: the load rejects .split " " with "requires a target" and
\* name.random_bool with "does not take a target".
C21_TargetUsageRejected ==
    /\ (ValidateDone /\ source = ".split \" \"")
       => validated.err # NoError /\ validated.cause = ErrValRequiresTarget
    /\ (ValidateDone /\ source = "name.random_bool")
       => validated.err # NoError /\ validated.cause = ErrValNoTarget

\* The first half of C21 alone: a call that needs a target and has none is
\* rejected.
MissingTargetRejected ==
    (ValidateDone /\ source \in {".split \" \"", ".contains \"test\"", ".trim"})
    => validated.err # NoError /\ validated.cause = ErrValRequiresTarget

\* What the attribution is to leave in the variables before: the names with
\* a key of the dictionary, or a position of the sequence, bound to that
\* entry, every other name as it was.
Destructured(names, value, before) ==
    LET matched == IF value.k = "map[string]interface{}"
                   THEN {names[i] : i \in DOMAIN names} \cap DOMAIN value.d
                   ELSE {names[i] : i \in DOMAIN names \cap DOMAIN value.a}
        entry(n) == IF value.k = "map[string]interface{}" THEN value.d[n]
                    ELSE value.a[CHOOSE i \in DOMAIN names \cap DOMAIN value.a :
                                    names[i] = n]
    IN  [n \in DOMAIN before \cup matched |->
            IF n \in matched THEN entry(n) ELSE before[n]]

\* The value of a literal of DestructureValues.
LiteralValue(e) ==
    CASE e.type = "NumberValue" -> VFloat(e.Value)
      [] e.type = "StringValue" -> VString(e.Value)
      [] e.type = "BooleanValue" -> VBool(e.Value)
      [] e.type = "TableValue" /\ e.IsArray ->
            VArray([i \in DOMAIN e.Array |-> VFloat(e.Array[i].Value)])
      [] OTHER -> VDict([key \in DOMAIN e.Dict |-> VFloat(e.Dict[key].Value)])

DestructureBlock(v, names) ==
    <<ConditionLine(BinaryExpression(Attribution(StringValue("old"), <<"y">>), "==",
                                     Attribution(v, names)), FALSE)>>

\* C22: a multi-variable attribution binds by key from a dictionary and by
\* position from a sequence, leaves the other names as they were, and for
\* any other value raises the destructuring error and binds nothing.
C22_Destructuring ==
    \A v \in DestructureValues, names \in DestructureNames :
        (Evaluated /\ conditions = DestructureBlock(v, names))
        => LET before == MapPut(EmptyMap, "y", VString("old"))
           IN  IF v.type = "TableValue"
               THEN /\ outcome.err = NoError
                    /\ outcome.Variables = Destructured(names, LiteralValue(v), before)
               ELSE /\ outcome.err = ErrDestructure
                    /\ outcome.Variables = before

\* A dictionary with the key y alone was destructured into x and y: y is
\* rebound, x is left unbound.
C22_Witness ==
    /\ Evaluated
    /\ conditions = DestructureBlock(TableDict([key \in {"y"} |-> NumberValue(2)]),
                                     <<"x", "y">>)
    /\ outcome.Variables = MapPut(EmptyMap, "y", VFloat(2))

\* C27: l == r and r == l, evaluated in the same context, give the same
\* result.
C27_EqualitySymmetric ==
    \A l, r \in EqualityOperands :
        (Evaluated /\ conditions = ComparisonOf(l, "==", r))
        => /\ outcome.err = EvaluateConditions(ComparisonOf(r, "==", l), context).err
           /\ outcome.value
                 = EvaluateConditions(ComparisonOf(r, "==", l), context).value

\* Equality is symmetric between operands that are both literals.
LiteralEqualitySymmetric ==
    \A l, r \in EqualityOperands \ {Ref("call_count")} :
        (Evaluated /\ conditions = ComparisonOf(l, "==", r))
        => outcome.value = EvaluateConditions(ComparisonOf(r, "==", l), context).value

\* C23: in one execution context the line .random_int 0 3 == 0 evaluated a
\* second time gives what it gave the first time: the second line of the
\* block, reached when the first was true, is true.
C23_SameRandomValueTwice ==
    (Evaluated /\ conditions = RandomBlock /\ outcome.evaluated = 2)
    => outcome.err = NoError /\ outcome.value

\* The tree of 1 op1 2 op2 3 when the tighter operator binds first and
\* operators of one level group to the left.
Grouped(op1, op2) ==
    IF Level(op1) >= Level(op2)
    THEN BinaryExpression(BinaryExpression(NumberValue(1), op1, NumberValue(2)),
                          op2, NumberValue(3))
    ELSE BinaryExpression(NumberValue(1), op1,
                          BinaryExpression(NumberValue(2), op2, NumberValue(3)))

PrecedenceOver(pairs) ==
    /\ \A pair \in pairs :
          (ParseDone /\ source = TwoOperators(pair[1], pair[2]))
          => parsed.err = NoError /\ parsed.expr = Grouped(pair[1], pair[2])
    /\ \A op \in LevelOps :
          (ParseDone /\ source = NotThen(op))
          => /\ parsed.err = NoError
             /\ parsed.expr = BinaryExpression(UnaryExpression("not", NumberValue(1)),
                                               op, NumberValue(2))
    /\ (ParseDone /\ source = "1 and 2 >> x")
       => parsed.expr = BinaryExpression(NumberValue(1), "and",
                                         Attribution(NumberValue(2), <<"x">>))
    /\ (ParseDone /\ source = "1 or 2 >> x")
       => parsed.expr = BinaryExpression(NumberValue(1), "or",
                                         Attribution(NumberValue(2), <<"x">>))
    /\ (ParseDone /\ source = "1 >> x and 2")
       => parsed.expr = BinaryExpression(Attribution(NumberValue(1), <<"x">>),
                                         "and", NumberValue(2))
    /\ (ParseDone /\ source = "1 == 2 >> x")
       => parsed.expr = Attribution(BinaryExpression(NumberValue(1), "==",
                                                     NumberValue(2)), <<"x">>)
    /\ (ParseDone /\ source = "1 .. 2 >> x")
       => parsed.expr = Attribution(BinaryExpression(NumberValue(1), "..",
                                                     NumberValue(2)), <<"x">>)
    /\ (ParseDone /\ source = "1 + 2 * 3")
       => /\ parsed.err = NoError
          /\ EvaluateParsed(EmptyMap).err = NoError
          /\ EvaluateParsed(EmptyMap).value = VFloat(7)
    /\ (ParseDone /\ source = "True or False and True")
       => /\ parsed.err = NoError
          /\ EvaluateParsed(EmptyMap).err = NoError
          /\ EvaluateParsed(EmptyMap).value = VBool(TRUE)

PostAndEmail == "request.method == \"POST\" and request.body.email >> email"

\* C25: request.method == "POST" and request.body.email >> email parses as
\* an attribution to email whose value is the whole and expression.
C25_AttributionTakesWholeAnd ==
    (ParseDone /\ source = PostAndEmail)
    => /\ parsed.err = NoError
       /\ parsed.expr.type = "Attribution"
       /\ parsed.expr.Variables = <<"email">>
       /\ parsed.expr.Value.type = "BinaryExpression"
       /\ parsed.expr.Value.Operator = "and"

\* The same shape without access paths: the code builds an and whose right
\* operand is the attribution.
AttributionUnderAnd ==
    (ParseDone /\ source = "x == \"POST\" and y >> email")
    => /\ parsed.err = NoError
       /\ parsed.expr.type = "BinaryExpression"
       /\ parsed.expr.Operator = "and"
       /\ parsed.expr.Right.type = "Attribution"
       /\ parsed.expr.Right.Variables = <<"email">>

\* C26: when Parse returns an expression without error, every token was
\* consumed.
C26_EveryTokenConsumed ==
    (ParseDone /\ parsed.err = NoError) => parsed.pos = Len(parser.tokens)

\* The texts of C26 are accepted, cut to their leading expression.
LeftoverAccepted ==
    (ParseDone /\ source \in {"1 2", "a == 1 )", "1 < 2 < 3"})
    => parsed.err = NoError /\ parsed.pos < Len(parser.tokens)

\* The expressions directly under an expression.
Children(expr) ==
    CASE expr.type = "BinaryExpression" -> {expr.Left, expr.Right}
      [] expr.type = "UnaryExpression" -> {expr.Operand}
      [] expr.type = "Attribution" -> {expr.Value}
      [] expr.type = "FunctionCall" ->
            {expr.Args[i] : i \in DOMAIN expr.Args}
                \cup (IF expr.Target = Nil THEN {} ELSE {expr.Target})
      [] expr.type = "TableValue" /\ expr.IsArray ->
            {expr.Array[i] : i \in DOMAIN expr.Array}
      [] expr.type = "TableValue" /\ ~expr.IsArray ->
            {expr.Dict[key] : key \in DOMAIN expr.Dict}
      [] OTHER -> {}

\* The expression and everything nested in it.
RECURSIVE Nested(_)
Nested(expr) == {expr} \cup UNION {Nested(child) : child \in Children(expr)}

\* C30: in an expression the validator accepts, every nested function call
\* and attribution, those inside tables included, passes the validator's
\* rules for calls and attributions.
C30_AcceptedMeansNestedValid ==
    (ValidateDone /\ validated.err = NoError)
    => \A expr \in Nested(parsed.expr) :
          /\ expr.type = "FunctionCall" => validateFunctionCall(expr) = NoError
          /\ expr.type = "Attribution" => validateAttribution(expr) = NoError

\* The same for the accepted expressions without a table.
AcceptedWithoutTableNestedValid ==
    (/\ ValidateDone
     /\ validated.err = NoError
     /\ \A expr \in Nested(parsed.expr) : expr.type # "TableValue")
    => \A expr \in Nested(parsed.expr) :
          /\ expr.type = "FunctionCall" => validateFunctionCall(expr) = NoError
          /\ expr.type = "Attribution" => validateAttribution(expr) = NoError

(***************************************************************************)
(* Properties of the lexer and of the parser of mock files.                *)
(***************************************************************************)
LexDone == fileTokens # Pending

FileParsed == fileAST # Pending

\* The status codes of the response lines of the file, in file order.
RECURSIVE responseCodes(_)
responseCodes(toks) ==
    IF Len(toks) = 0 THEN <<>>
    ELSE IF Head(toks).Type = "ResponseStart"
    THEN <<Head(toks).StatusCode>> \o responseCodes(Tail(toks))
    ELSE responseCodes(Tail(toks))

\* C28: Parser.Parse returns an error, or one response section for each
\* response line of the file, in file order.
C28_EveryResponseLineParsed ==
    (FileParsed /\ fileAST.err = NoError)
    => [k \in DOMAIN fileAST.file.Responses |-> fileAST.file.Responses[k].StatusCode]
          = responseCodes(Lex(fileLines).tokens)

\* When every token after the first response line is a response line, a
\* header, a condition before the body, a body line or a blank line in
\* its place, no section is lost: the files without path-like lines and
\* with no condition line after a body line.
NoSectionLostInPlainFiles ==
    (/\ FileParsed
     /\ fileAST.err = NoError
     /\ \A k \in DOMAIN fileLines :
           /\ Lex(fileLines).tokens[k].Type \in {"ResponseStart", "Header", "BodyLine",
                                          "BlankLine", "ConditionLine"}
           /\ Lex(fileLines).tokens[k].Type = "ConditionLine"
              => /\ k > 1
                 /\ Lex(fileLines).tokens[k - 1].Type \in {"ResponseStart", "Header",
                                                    "ConditionLine"})
    => Len(fileAST.file.Responses) = Len(responseCodes(Lex(fileLines).tokens))

\* C29: for the line > x == "a#b" the lexer's condition token carries the
\* expression x == "a#b".
C29_HashInsideStringKept ==
    LexDone
    => \A k \in DOMAIN fileTokens.tokens :
          fileTokens.tokens[k].Raw = "> x == \"a#b\""
          => /\ fileTokens.tokens[k].Type = "ConditionLine"
             /\ fileTokens.tokens[k].ConditionExpression = "x == \"a#b\""

\* A # after the expression starts a comment: > or True # note gives the
\* or condition True.
TrailingCommentRemoved ==
    LexDone
    => \A k \in DOMAIN fileTokens.tokens :
          fileTokens.tokens[k].Raw = "> or True # note"
          => /\ fileTokens.tokens[k].Type = "ConditionLine"
             /\ fileTokens.tokens[k].ConditionExpression = "True"
             /\ fileTokens.tokens[k].IsOrCondition
====
